---- MODULE Spec2Model ----
(***************************************************************************)
(* Model of the cleanup-bot of Xapphire13/discord-bots: the tick-driven    *)
(* cleanup scheduler with its cancellation registry, the per-channel       *)
(* cleanup task, and the file-backed backup queue.                         *)
(***************************************************************************)
EXTENDS Integers, Sequences, FiniteSets, TLC

\* ------------------------------------------------------------------------
\* Bounds and program constants
\* ------------------------------------------------------------------------

\* Channel ids known to the bot.
ChannelIds == {"c1", "c2"}

\* Task slots per channel: how many spawned cleanup_channel futures of one
\* channel the model can hold at once.
MaxTasks == 2

\* Largest number of delete calls / backup jobs of one abstract pass.
MaxJobs == 1

MAX_PAGINATION_ROUNDS == 10

\* Local files that can be queued for upload.
Paths == {"a.png", "b.png"}

\* Error texts a failed backup can carry.
Errors == {"file missing", "upload failed"}

\* mark_failed is not called on an entry whose retry_count has reached this.
MaxRetryCount == 2

\* Largest number of expired messages one pass collects.
MaxMsgs == 3

\* Ages in days of the expired messages of a channel with a 1-day retention:
\* younger than, exactly at and older than the bulk-delete age ceiling.
Ages == {3, 14, 20}

\* Attachment lists a message can carry.
AttachmentLists == {<< >>, <<"other">>, <<"media">>, <<"other", "media">>}

BULK_DELETE_THRESHOLD == 14

BULK_DELETE_MIN == 2

BULK_DELETE_MAX == 100

Slots == 1..MaxTasks

MAX_MESSAGES_PER_FETCH == 100

TARGET_EXPIRED_MESSAGES == 100

\* Retention of the channel in days.
retention_days == 1

\* Ages in days of the messages of a channel history: not yet expired,
\* expired and young enough for a bulk delete, expired and too old for one.
FreshAge == 1

YoungAge == 2

OldAge == 20

\* 4 * 1024 * 1024
SIMPLE_UPLOAD_LIMIT == 4194304

\* 10 * 1024 * 1024
CHUNK_SIZE == 10485760

\* The largest files uploaded are around MaxChunks full chunks long.
MaxChunks == 3

\* The clock of the token store runs over 0..MaxNow minutes.
MaxNow == 8

\* Refreshes the token endpoint grants.
MaxRefreshes == 2

\* Cleanup passes of one channel the model follows.
MaxPasses == 3

\* Sizes of the long channel histories: one full page, a full page and a
\* short one, two full pages and a short one, and more messages than the
\* pagination rounds of one pass can fetch.
OnePage == 100

PageAndHalf == 150

TwoPagesAndHalf == 250

BeyondRounds == 1001

\* ------------------------------------------------------------------------
\* State
\* ------------------------------------------------------------------------

VARIABLES
    channels,     \* Config.channels: the set of enabled channel ids
    registry,     \* CancellationRegistry: registered channel -> task slot holding the receiver
    pending,      \* run_scheduler: channels of the tick's snapshot not yet visited
    tasks,        \* spawned cleanup_channel futures: channel -> slot -> task state
    disabling,    \* disable commands between remove_channel and cancel
    disabled,     \* channels whose last command is a disable that has called cancel
    entries,      \* BackupQueue.entries: key -> PendingBackup
    disk,         \* the file ./pending_backups.toml
    lastOp,       \* the BackupQueue call made last: [op, key]
    allOk,        \* every mutating call since the last load returned Ok
    expired_messages,  \* run_cleanup: the expired messages the pagination collected
    ppc,               \* run_cleanup: position of the pass after the pagination
    cancelled,         \* the value of the pass's cancel_rx
    delete_jobs,       \* classified.delete_jobs
    backup_jobs,       \* classified.backup_jobs
    bulk_jobs,         \* delete_messages: bulk_jobs
    individual_jobs,   \* delete_messages: individual_jobs
    idx,               \* position of the running for loop
    bulkCalls,         \* bulk delete calls issued so far, each a sequence of ids
    singleCalls,       \* ids of the single delete calls issued so far
    downloads,         \* ids of the messages whose attachments were downloaded
    history,           \* the channel's message history as the platform was given it
    platform,          \* numbers of the messages that exist on the platform, newest first
    enabled,           \* the channel has an entry in Config.channels
    pagination_cursor, \* ChannelConfig.pagination_cursor of that entry
    cursor,            \* run_cleanup: cursor
    round,             \* run_cleanup: pagination rounds started by the pass
    reached_end,       \* run_cleanup: reached_end
    passes,            \* cleanup passes started so far
    cleared,           \* a stricter policy has cleared the stored cursor since the last pass started
    heldMin,           \* number of the oldest message a cursor has pointed at, 0 for none
    files,             \* local files that exist in the download directory
    wpc,               \* run_worker: position of the worker
    snapshot,          \* run_worker: pending, the paths not yet visited by the for loop
    current,           \* run_worker: local_path of the running iteration
    uploaded,          \* paths whose upload has returned Ok
    ticked,            \* run_worker has finished a tick since the process started
    file_size,         \* upload_file: metadata.len()
    upc,               \* upload_file: position of the upload
    requests,          \* requests the upload has sent so far
    temp,              \* the file ./pending_backups.toml.tmp
    spc,               \* BackupQueue::save: position of the running save
    tokens,            \* TokenStore.tokens
    tokens_file,       \* the file ./onedrive_tokens.json
    now,               \* Utc::now() in minutes
    tpc,               \* get_valid_token: position of the running call
    token_result,      \* what the last get_valid_token returned
    contacted,         \* requests the running call has sent to the token endpoint
    result,            \* what run_cleanup returned, "none" while the pass runs
    download_errors,   \* ids of the messages whose download returned Err
    dropped,           \* expired messages the truncation at the target cut off
    lock,              \* holder of the Mutex around the BackupQueue
    held_ops,          \* BackupQueue calls made under the current or last hold of the lock
    device,            \* device_code_flow: the device code response, None before it
    polls,             \* device_code_flow: the token requests sent so far, [at, answer]
    attempts,          \* run_worker: uploads started per path since the process started
    marked             \* run_worker: paths the running pass has marked InProgress

schedVars == <<channels, registry, pending, tasks, disabling, disabled>>

queueVars == <<entries, disk, lastOp, allOk>>

passVars == <<expired_messages, ppc, cancelled, delete_jobs, backup_jobs, bulk_jobs,
              individual_jobs, idx, bulkCalls, singleCalls, downloads>>

pageVars == <<history, platform, enabled, pagination_cursor, cursor, round, reached_end,
              passes, cleared, heldMin>>

workerVars == <<files, wpc, snapshot, current, uploaded, ticked, attempts, marked>>

uploadVars == <<file_size, upc, requests>>

saveVars == <<temp, spc>>

tokenVars == <<tokens, tokens_file, now, tpc, token_result, contacted>>

outcomeVars == <<result, download_errors, dropped>>

lockVars == <<lock, held_ops>>

deviceVars == <<device, polls>>

vars == <<channels, registry, pending, tasks, disabling, disabled, entries, disk, lastOp, allOk,
          expired_messages, ppc, cancelled, delete_jobs, backup_jobs, bulk_jobs,
          individual_jobs, idx, bulkCalls, singleCalls, downloads,
          history, platform, enabled, pagination_cursor, cursor, round, reached_end,
          passes, cleared, heldMin, files, wpc, snapshot, current, uploaded, ticked,
          file_size, upc, requests, temp, spc, tokens, tokens_file, now, tpc,
          token_result, contacted, result, download_errors, dropped, lock, held_ops,
          device, polls, attempts, marked>>

\* A slot without a task.
IdleTask == [pc |-> "idle", cancel |-> FALSE, round |-> 0, del |-> 0, bk |-> 0, how |-> "none"]

\* ------------------------------------------------------------------------
\* Components that take no part in a specification rest in these states
\* ------------------------------------------------------------------------

SchedParked ==
    /\ channels = {}
    /\ registry = << >>
    /\ pending = {}
    /\ tasks = [c \in ChannelIds |-> [s \in Slots |-> IdleTask]]
    /\ disabling = {}
    /\ disabled = {}

QueueParked ==
    /\ entries = << >>
    /\ disk = [exists |-> FALSE, tables |-> {}]
    /\ lastOp = [op |-> "load", key |-> "none"]
    /\ allOk = TRUE

PassParked ==
    /\ expired_messages = << >>
    /\ ppc = "done"
    /\ cancelled = FALSE
    /\ delete_jobs = << >>
    /\ backup_jobs = << >>
    /\ bulk_jobs = << >>
    /\ individual_jobs = << >>
    /\ idx = 1
    /\ bulkCalls = << >>
    /\ singleCalls = << >>
    /\ downloads = << >>

PageParked ==
    /\ history = [total |-> 0, fresh |-> 0, young |-> 0, media |-> {}, undeletable |-> {}]
    /\ platform = << >>
    /\ enabled = FALSE
    /\ pagination_cursor = << >>
    /\ cursor = << >>
    /\ round = 0
    /\ reached_end = FALSE
    /\ passes = 0
    /\ cleared = FALSE
    /\ heldMin = 0

WorkerParked ==
    /\ files = {}
    /\ wpc = "tick"
    /\ snapshot = << >>
    /\ current = "none"
    /\ uploaded = {}
    /\ ticked = FALSE
    /\ attempts = [p \in Paths |-> 0]
    /\ marked = {}

UploadParked ==
    /\ file_size = 0
    /\ upc = "done"
    /\ requests = << >>

SaveParked ==
    /\ temp = [exists |-> FALSE, tables |-> {}]
    /\ spc = "idle"

TokenParked ==
    /\ tokens = << >>
    /\ tokens_file = << >>
    /\ now = 0
    /\ tpc = "idle"
    /\ token_result = << >>
    /\ contacted = 0

OutcomeParked ==
    /\ result = "none"
    /\ download_errors = {}
    /\ dropped = << >>

LockParked ==
    /\ lock = "free"
    /\ held_ops = 0

DeviceParked ==
    /\ device = << >>
    /\ polls = << >>

\* ------------------------------------------------------------------------
\* CancellationRegistry
\* ------------------------------------------------------------------------

is_running(c) == c \in DOMAIN registry

\* register(c): a new entry whose sender is paired with the receiver handed
\* to the task in slot s.
register(reg, c, s) == [x \in DOMAIN reg \cup {c} |-> IF x = c THEN s ELSE reg[x]]

\* deregister(c): removes the entry unconditionally, idempotent.
deregister(reg, c) == [x \in DOMAIN reg \ {c} |-> reg[x]]

\* A cancel that signals the registered task of every channel.
cancelSignalsEveryChannel(c) ==
    [x \in ChannelIds |->
        [s \in Slots |->
            IF x \in DOMAIN registry /\ registry[x] = s
            THEN [tasks[x][s] EXCEPT !.cancel = TRUE]
            ELSE tasks[x][s]]]

\* cancel(c): sets the signal of the registered task; the result says
\* whether a task was found.
cancel(c) ==
    IF c \in DOMAIN registry
    THEN [tasks EXCEPT ![c][registry[c]].cancel = TRUE]
    ELSE tasks

\* The boolean cancel(c) returns, `was_running` in the disable command.
was_running(c) == c \in DOMAIN registry

Active(c) == {s \in Slots : tasks[c][s].pc # "idle"}

FreeSlot(c) == CHOOSE s \in Slots \ Active(c) : \A t \in Slots \ Active(c) : s <= t

\* ------------------------------------------------------------------------
\* Commands
\* ------------------------------------------------------------------------

\* enable: ConfigStore::add_channel inserts the channel (the entry is in
\* memory whether or not Config::save succeeds).
Enable(c) ==
    /\ channels' = channels \cup {c}
    /\ disabled' = disabled \ {c}
    /\ UNCHANGED <<registry, pending, tasks, disabling, queueVars, passVars, pageVars, workerVars, uploadVars, saveVars, tokenVars, deviceVars, outcomeVars, lockVars>>

\* disable, first half: remove_channel; when Config::save fails the command
\* returns through `?` before it reaches cancel.
DisableRemove(c, saved) ==
    /\ c \notin disabling
    /\ channels' = channels \ {c}
    /\ disabling' = IF saved THEN disabling \cup {c} ELSE disabling
    /\ UNCHANGED <<registry, pending, tasks, disabled, queueVars, passVars, pageVars, workerVars, uploadVars, saveVars, tokenVars, deviceVars, outcomeVars, lockVars>>

\* disable, second half: cancel the running cleanup task of the channel.
DisableCancel(c) ==
    /\ c \in disabling
    /\ disabling' = disabling \ {c}
    /\ tasks' = cancel(c)
    /\ disabled' = IF c \in channels THEN disabled ELSE disabled \cup {c}
    /\ UNCHANGED <<channels, registry, pending, queueVars, passVars, pageVars, workerVars, uploadVars, saveVars, tokenVars, deviceVars, outcomeVars, lockVars>>

\* ------------------------------------------------------------------------
\* Scheduler
\* ------------------------------------------------------------------------

\* interval.tick() returns: snapshot of the enabled channels.
SchedulerTick ==
    /\ pending = {}
    /\ pending' = channels
    /\ UNCHANGED <<channels, registry, tasks, disabling, disabled, queueVars, passVars, pageVars, workerVars, uploadVars, saveVars, tokenVars, deviceVars, outcomeVars, lockVars>>

Spawn(c, s) ==
    [tasks EXCEPT ![c][s] = [IdleTask EXCEPT !.pc = "round"]]

\* A scheduler that registers and spawns without consulting is_running.
SchedulerVisitNoCheck(c) ==
    /\ c \in pending
    /\ pending' = pending \ {c}
    /\ Slots \ Active(c) # {}
    /\ registry' = register(registry, c, FreeSlot(c))
    /\ tasks' = Spawn(c, FreeSlot(c))
    /\ UNCHANGED <<channels, disabling, disabled, queueVars, passVars, pageVars, workerVars, uploadVars, saveVars, tokenVars, deviceVars, outcomeVars, lockVars>>

\* A scheduler that treats a task whose cancellation was requested as gone.
SchedulerVisitCancelledIsGone(c) ==
    /\ c \in pending
    /\ pending' = pending \ {c}
    /\ IF is_running(c) /\ ~tasks[c][registry[c]].cancel
       THEN UNCHANGED <<registry, tasks>>
       ELSE /\ Slots \ Active(c) # {}
            /\ registry' = register(registry, c, FreeSlot(c))
            /\ tasks' = Spawn(c, FreeSlot(c))
    /\ UNCHANGED <<channels, disabling, disabled, queueVars, passVars, pageVars, workerVars, uploadVars, saveVars, tokenVars, deviceVars, outcomeVars, lockVars>>

\* One iteration of the for loop of a tick: check and register in one
\* critical section, then tokio::spawn of cleanup_channel.
SchedulerVisit(c) ==
    /\ c \in pending
    /\ pending' = pending \ {c}
    /\ IF is_running(c)
       THEN UNCHANGED <<registry, tasks>>
       ELSE /\ Slots \ Active(c) # {}
            /\ registry' = register(registry, c, FreeSlot(c))
            /\ tasks' = Spawn(c, FreeSlot(c))
    /\ UNCHANGED <<channels, disabling, disabled, queueVars, passVars, pageVars, workerVars, uploadVars, saveVars, tokenVars, deviceVars, outcomeVars, lockVars>>

\* ------------------------------------------------------------------------
\* cleanup_channel / run_cleanup (control flow)
\* ------------------------------------------------------------------------

Goto(c, s, pc) == tasks' = [tasks EXCEPT ![c][s].pc = pc, ![c][s].round = 0]

\* run_cleanup returns: its locals are dropped, the receiver lives on in
\* cleanup_channel.
Return(c, s, how) ==
    tasks' = [tasks EXCEPT ![c][s] = [IdleTask EXCEPT !.pc = "finish",
                                                      !.cancel = tasks[c][s].cancel,
                                                      !.how = how]]

\* Top of a pagination round: the cancellation checkpoint, then the request.
RoundStart(c, s) ==
    /\ tasks[c][s].pc = "round"
    /\ IF tasks[c][s].cancel
       THEN Return(c, s, "cancelled")
       ELSE tasks' = [tasks EXCEPT ![c][s].pc = "fetch"]
    /\ UNCHANGED <<channels, registry, pending, disabling, disabled, queueVars, passVars, pageVars, workerVars, uploadVars, saveVars, tokenVars, deviceVars, outcomeVars, lockVars>>

\* The page fetch returns: an error, a page that ends the loop (empty, short,
\* or target reached), or a full page that leaves the loop running.
FetchDone(c, s, outcome) ==
    /\ tasks[c][s].pc = "fetch"
    /\ CASE outcome = "err"  -> Return(c, s, "fetch_err")
         [] outcome = "stop" -> Goto(c, s, "persist")
         [] outcome = "more" ->
                IF tasks[c][s].round + 1 < MAX_PAGINATION_ROUNDS
                THEN tasks' = [tasks EXCEPT ![c][s].pc = "round",
                                            ![c][s].round = @ + 1]
                ELSE Goto(c, s, "persist")
    /\ UNCHANGED <<channels, registry, pending, disabling, disabled, queueVars, passVars, pageVars, workerVars, uploadVars, saveVars, tokenVars, deviceVars, outcomeVars, lockVars>>

\* set_pagination_cursor (saves only when the channel is still configured),
\* then classification into nDel delete calls and nBk backup jobs and the
\* cancellation checkpoint that follows it.
Persist(c, s, saved, nDel, nBk) ==
    /\ tasks[c][s].pc = "persist"
    /\ saved \/ c \in channels
    /\ IF ~saved
       THEN Return(c, s, "persist_err")
       ELSE IF nDel = 0 /\ nBk = 0
       THEN Return(c, s, "completed")
       ELSE IF tasks[c][s].cancel
       THEN Return(c, s, "cancelled")
       ELSE tasks' = [tasks EXCEPT ![c][s].pc = "delete",
                                   ![c][s].del = nDel,
                                   ![c][s].bk = nBk]
    /\ UNCHANGED <<channels, registry, pending, disabling, disabled, queueVars, passVars, pageVars, workerVars, uploadVars, saveVars, tokenVars, deviceVars, outcomeVars, lockVars>>

\* delete_messages: before each call the cancellation checkpoint; a failed
\* call is logged and the loop goes on.
DeleteStep(c, s) ==
    /\ tasks[c][s].pc = "delete"
    /\ IF tasks[c][s].cancel \/ tasks[c][s].del = 0
       THEN tasks' = [tasks EXCEPT ![c][s].pc = "check", ![c][s].del = 0]
       ELSE tasks' = [tasks EXCEPT ![c][s].del = @ - 1]
    /\ UNCHANGED <<channels, registry, pending, disabling, disabled, queueVars, passVars, pageVars, workerVars, uploadVars, saveVars, tokenVars, deviceVars, outcomeVars, lockVars>>

\* "Check cancellation again" between the delete jobs and the backup jobs.
CheckAgain(c, s) ==
    /\ tasks[c][s].pc = "check"
    /\ IF tasks[c][s].cancel
       THEN Return(c, s, "cancelled")
       ELSE Goto(c, s, "backup")
    /\ UNCHANGED <<channels, registry, pending, disabling, disabled, queueVars, passVars, pageVars, workerVars, uploadVars, saveVars, tokenVars, deviceVars, outcomeVars, lockVars>>

\* process_backup_jobs: before each download the cancellation checkpoint.
BackupStep(c, s) ==
    /\ tasks[c][s].pc = "backup"
    /\ IF tasks[c][s].cancel
       THEN Return(c, s, "cancelled")
       ELSE IF tasks[c][s].bk = 0
       THEN Return(c, s, "completed")
       ELSE tasks' = [tasks EXCEPT ![c][s].bk = @ - 1]
    /\ UNCHANGED <<channels, registry, pending, disabling, disabled, queueVars, passVars, pageVars, workerVars, uploadVars, saveVars, tokenVars, deviceVars, outcomeVars, lockVars>>

IsErr(how) == how \in {"fetch_err", "persist_err"}

\* A wrapper that propagates the error before it deregisters.
CleanupChannelEndErrSkips(c, s) ==
    /\ tasks[c][s].pc = "finish"
    /\ registry' = IF IsErr(tasks[c][s].how) THEN registry ELSE deregister(registry, c)
    /\ tasks' = [tasks EXCEPT ![c][s] = IdleTask]
    /\ UNCHANGED <<channels, pending, disabling, disabled, queueVars, passVars, pageVars, workerVars, uploadVars, saveVars, tokenVars, deviceVars, outcomeVars, lockVars>>

\* A wrapper that leaves the entry in place when the pass was cancelled.
CleanupChannelEndCancelSkips(c, s) ==
    /\ tasks[c][s].pc = "finish"
    /\ registry' = IF tasks[c][s].how = "cancelled" THEN registry ELSE deregister(registry, c)
    /\ tasks' = [tasks EXCEPT ![c][s] = IdleTask]
    /\ UNCHANGED <<channels, pending, disabling, disabled, queueVars, passVars, pageVars, workerVars, uploadVars, saveVars, tokenVars, deviceVars, outcomeVars, lockVars>>

\* A wrapper that returns without deregistering when the page fetch failed.
CleanupChannelEndFetchErrSkips(c, s) ==
    /\ tasks[c][s].pc = "finish"
    /\ registry' = IF tasks[c][s].how = "fetch_err" THEN registry ELSE deregister(registry, c)
    /\ tasks' = [tasks EXCEPT ![c][s] = IdleTask]
    /\ UNCHANGED <<channels, pending, disabling, disabled, queueVars, passVars, pageVars, workerVars, uploadVars, saveVars, tokenVars, deviceVars, outcomeVars, lockVars>>

\* cleanup_channel after run_cleanup returned: deregister, log the error.
CleanupChannelEnd(c, s) ==
    /\ tasks[c][s].pc = "finish"
    /\ registry' = deregister(registry, c)
    /\ tasks' = [tasks EXCEPT ![c][s] = IdleTask]
    /\ UNCHANGED <<channels, pending, disabling, disabled, queueVars, passVars, pageVars, workerVars, uploadVars, saveVars, tokenVars, deviceVars, outcomeVars, lockVars>>

TaskStep(c, s) ==
    \/ RoundStart(c, s)
    \/ \E outcome \in {"err", "stop", "more"} : FetchDone(c, s, outcome)
    \/ \E saved \in BOOLEAN, nDel \in 0..MaxJobs, nBk \in 0..MaxJobs :
           Persist(c, s, saved, nDel, nBk)
    \/ DeleteStep(c, s)
    \/ CheckAgain(c, s)
    \/ BackupStep(c, s)
    \/ CleanupChannelEnd(c, s)

\* ------------------------------------------------------------------------
\* The scheduler with its tasks and the enable/disable commands
\* ------------------------------------------------------------------------

InitOn(C) ==
    /\ channels \in SUBSET C
    /\ registry = << >>
    /\ pending = {}
    /\ tasks = [c \in ChannelIds |-> [s \in Slots |-> IdleTask]]
    /\ disabling = {}
    /\ disabled = {}
    /\ QueueParked
    /\ PassParked
    /\ PageParked
    /\ WorkerParked
    /\ UploadParked
    /\ SaveParked
    /\ TokenParked
    /\ DeviceParked
    /\ OutcomeParked
    /\ LockParked

\* The commands are issued in the channels C; the scheduler and the tasks
\* run for whatever is configured.
NextOn(C) ==
    \/ \E c \in C : Enable(c)
    \/ \E c \in C, saved \in BOOLEAN : DisableRemove(c, saved)
    \/ \E c \in C : DisableCancel(c)
    \/ SchedulerTick
    \/ \E c \in ChannelIds : SchedulerVisit(c)
    \/ \E c \in ChannelIds, s \in Slots : TaskStep(c, s)

Init == InitOn(ChannelIds)

Next == NextOn(ChannelIds)

Spec == Init /\ [][Next]_vars

\* A bot whose commands are used in one channel only.
OneChannel == {"c1"}

InitOne == InitOn(OneChannel)

NextOne == NextOn(OneChannel)

\* The runtime polls every spawned task to completion and the calls a task
\* awaits return.
FairSpec ==
    /\ InitOne
    /\ [][NextOne]_vars
    /\ \A c \in ChannelIds : \A s \in Slots : WF_vars(TaskStep(c, s))

\* ------------------------------------------------------------------------
\* BackupQueue
\* ------------------------------------------------------------------------

NoFile == [exists |-> FALSE, tables |-> {}]

Pending == [type |-> "Pending"]

InProgress == [type |-> "InProgress"]

Failed(error) == [type |-> "Failed", error |-> error]

\* BackupStatus is serialized with an internal "type" tag; only the Failed
\* variant carries an "error" field.
SerStatus(st) ==
    IF st.type = "Failed"
    THEN << <<"type", "Failed">>, <<"error", st.error>> >>
    ELSE << <<"type", st.type>> >>

DeStatus(kv) ==
    IF kv[1][2] = "Failed"
    THEN [type |-> "Failed", error |-> kv[2][2]]
    ELSE [type |-> kv[1][2]]

\* toml::to_string_pretty(&self): one table per entry under its key.
Serialize(q) ==
    [exists |-> TRUE,
     tables |-> {[key |-> k,
                  local_path |-> q[k].local_path,
                  retry_count |-> q[k].retry_count,
                  status |-> SerStatus(q[k].status)] : k \in DOMAIN q}]

\* toml::from_str(&content)
Deserialize(file) ==
    [k \in {t.key : t \in file.tables} |->
        LET t == CHOOSE t \in file.tables : t.key = k
        IN  [local_path |-> t.local_path,
             retry_count |-> t.retry_count,
             status |-> DeStatus(t.status)]]

\* A load that keeps the statuses it finds.
LoadKeepsInProgress(file) ==
    IF file.exists THEN Deserialize(file) ELSE << >>

\* BackupQueue::load: the parsed file with every InProgress entry reset to
\* Pending, or an empty queue when there is no file.
Load(file) ==
    IF file.exists
    THEN LET q == Deserialize(file)
         IN  [k \in DOMAIN q |->
                 IF q[k].status = InProgress
                 THEN [q[k] EXCEPT !.status = Pending]
                 ELSE q[k]]
    ELSE << >>

\* BackupQueue::save: temp file, then rename over the canonical path; when
\* either step fails the canonical file is the old one.
Save(q, written) == IF written THEN Serialize(q) ELSE disk

Insert(q, k, v) == [x \in DOMAIN q \cup {k} |-> IF x = k THEN v ELSE q[x]]

Delete(q, k) == [x \in DOMAIN q \ {k} |-> q[x]]

\* PendingBackup as the cleanup task builds it for a downloaded file.
NewBackup(path) == [local_path |-> path, retry_count |-> 0, status |-> Pending]

RECURSIVE ValuesOf(_, _)
\* entries.values(): the map's values, visited one by one in the map's order.
ValuesOf(q, keys) ==
    IF keys = {}
    THEN << >>
    ELSE LET k == CHOOSE x \in keys : TRUE
         IN  <<q[k]>> \o ValuesOf(q, keys \ {k})

values(q) == ValuesOf(q, DOMAIN q)

IsPending(b) == b.status.type = "Pending"

\* get_pending()
get_pending(q) == SelectSeq(values(q), IsPending)

\* A get_failed that still returns an entry whose retries are used up.
get_failed_inclusive(q, max_retries) ==
    LET keep(b) == b.status.type = "Failed" /\ b.retry_count <= max_retries
    IN  SelectSeq(values(q), keep)

\* get_failed(max_retries)
get_failed(q, max_retries) ==
    LET keep(b) == b.status.type = "Failed" /\ b.retry_count < max_retries
    IN  SelectSeq(values(q), keep)

\* The process restarts: main calls BackupQueue::load and the backup worker
\* starts over at its first tick, with a new mutex around the queue.
Restart ==
    /\ entries' = Load(disk)
    /\ lastOp' = [op |-> "load", key |-> "none"]
    /\ allOk' = TRUE
    /\ wpc' = "tick"
    /\ snapshot' = << >>
    /\ current' = "none"
    /\ ticked' = FALSE
    /\ attempts' = [p \in Paths |-> 0]
    /\ marked' = {}
    /\ UNCHANGED <<disk, files, uploaded, schedVars, passVars, pageVars, uploadVars, saveVars, tokenVars, deviceVars, outcomeVars>>
    /\ lock' = "free"
    /\ held_ops' = 0

\* An add that leaves an entry already stored under the key as it is.
AddKeepsExisting(path, written) ==
    /\ entries' = IF path \in DOMAIN entries THEN entries
                  ELSE Insert(entries, path, NewBackup(path))
    /\ disk' = Save(entries', written)
    /\ lastOp' = [op |-> "add", key |-> path]
    /\ allOk' = (allOk /\ written)
    /\ UNCHANGED <<schedVars, passVars, pageVars, workerVars, uploadVars, saveVars, tokenVars, deviceVars, outcomeVars, lockVars>>

\* add(backup)
Add(path, written) ==
    /\ entries' = Insert(entries, path, NewBackup(path))
    /\ disk' = Save(entries', written)
    /\ lastOp' = [op |-> "add", key |-> path]
    /\ allOk' = (allOk /\ written)
    /\ UNCHANGED <<schedVars, passVars, pageVars, workerVars, uploadVars, saveVars, tokenVars, deviceVars, outcomeVars, lockVars>>

\* remove(local_path)
Remove(path, written) ==
    /\ entries' = Delete(entries, path)
    /\ disk' = Save(entries', written)
    /\ lastOp' = [op |-> "remove", key |-> path]
    /\ allOk' = (allOk /\ written)
    /\ UNCHANGED <<schedVars, passVars, pageVars, workerVars, uploadVars, saveVars, tokenVars, deviceVars, outcomeVars, lockVars>>

\* mark_in_progress(local_path): a missing key is Ok without a save.
MarkInProgress(path, written) ==
    /\ IF path \in DOMAIN entries
       THEN /\ entries' = [entries EXCEPT ![path].status = InProgress]
            /\ disk' = Save(entries', written)
            /\ allOk' = (allOk /\ written)
       ELSE UNCHANGED <<entries, disk, allOk>>
    /\ lastOp' = [op |-> "mark_in_progress", key |-> path]
    /\ UNCHANGED <<schedVars, passVars, pageVars, workerVars, uploadVars, saveVars, tokenVars, deviceVars, outcomeVars, lockVars>>

\* A mark_failed that puts the entry back when the save fails.
MarkFailedRollsBack(path, error, written) ==
    /\ path \in DOMAIN entries => entries[path].retry_count < MaxRetryCount
    /\ IF path \in DOMAIN entries
       THEN /\ entries' = IF written
                          THEN [entries EXCEPT ![path].status = Failed(error),
                                               ![path].retry_count = @ + 1]
                          ELSE entries
            /\ disk' = Save(entries', written)
            /\ allOk' = (allOk /\ written)
       ELSE UNCHANGED <<entries, disk, allOk>>
    /\ lastOp' = [op |-> "mark_failed", key |-> path]
    /\ UNCHANGED <<schedVars, passVars, pageVars, workerVars, uploadVars, saveVars, tokenVars, deviceVars, outcomeVars, lockVars>>

\* mark_failed(local_path, error)
MarkFailed(path, error, written) ==
    /\ path \in DOMAIN entries => entries[path].retry_count < MaxRetryCount
    /\ IF path \in DOMAIN entries
       THEN /\ entries' = [entries EXCEPT ![path].status = Failed(error),
                                          ![path].retry_count = @ + 1]
            /\ disk' = Save(entries', written)
            /\ allOk' = (allOk /\ written)
       ELSE UNCHANGED <<entries, disk, allOk>>
    /\ lastOp' = [op |-> "mark_failed", key |-> path]
    /\ UNCHANGED <<schedVars, passVars, pageVars, workerVars, uploadVars, saveVars, tokenVars, deviceVars, outcomeVars, lockVars>>

\* A reset that also starts the retry count over.
ResetToPendingZeroes(path, written) ==
    /\ IF path \in DOMAIN entries
       THEN /\ entries' = [entries EXCEPT ![path].status = Pending,
                                          ![path].retry_count = 0]
            /\ disk' = Save(entries', written)
            /\ allOk' = (allOk /\ written)
       ELSE UNCHANGED <<entries, disk, allOk>>
    /\ lastOp' = [op |-> "reset_to_pending", key |-> path]
    /\ UNCHANGED <<schedVars, passVars, pageVars, workerVars, uploadVars, saveVars, tokenVars, deviceVars, outcomeVars, lockVars>>

\* A reset that changes the entry in memory only.
ResetToPendingNoSave(path, written) ==
    /\ IF path \in DOMAIN entries
       THEN /\ entries' = [entries EXCEPT ![path].status = Pending]
            /\ UNCHANGED <<disk, allOk>>
       ELSE UNCHANGED <<entries, disk, allOk>>
    /\ lastOp' = [op |-> "reset_to_pending", key |-> path]
    /\ UNCHANGED <<schedVars, passVars, pageVars, workerVars, uploadVars, saveVars, tokenVars, deviceVars, outcomeVars, lockVars>>

\* reset_to_pending(local_path)
ResetToPending(path, written) ==
    /\ IF path \in DOMAIN entries
       THEN /\ entries' = [entries EXCEPT ![path].status = Pending]
            /\ disk' = Save(entries', written)
            /\ allOk' = (allOk /\ written)
       ELSE UNCHANGED <<entries, disk, allOk>>
    /\ lastOp' = [op |-> "reset_to_pending", key |-> path]
    /\ UNCHANGED <<schedVars, passVars, pageVars, workerVars, uploadVars, saveVars, tokenVars, deviceVars, outcomeVars, lockVars>>

InitQueue ==
    /\ entries = << >>
    /\ disk = NoFile
    /\ lastOp = [op |-> "load", key |-> "none"]
    /\ allOk = TRUE
    /\ SchedParked
    /\ PassParked
    /\ PageParked
    /\ WorkerParked
    /\ UploadParked
    /\ SaveParked
    /\ TokenParked
    /\ DeviceParked
    /\ OutcomeParked
    /\ LockParked

NextQueue ==
    \/ Restart
    \/ \E path \in Paths, written \in BOOLEAN : Add(path, written)
    \/ \E path \in Paths, written \in BOOLEAN : Remove(path, written)
    \/ \E path \in Paths, written \in BOOLEAN : MarkInProgress(path, written)
    \/ \E path \in Paths, error \in Errors, written \in BOOLEAN : MarkFailed(path, error, written)
    \/ \E path \in Paths, written \in BOOLEAN : ResetToPending(path, written)

SpecQueue == InitQueue /\ [][NextQueue]_vars

\* ------------------------------------------------------------------------
\* BackupQueue::save, step by step
\* ------------------------------------------------------------------------

OtherThanSave == <<schedVars, passVars, pageVars, workerVars, uploadVars, tokenVars, deviceVars,
                   outcomeVars, lockVars>>

\* A mutating call has changed the queue in memory to q and enters save;
\* toml::to_string_pretty builds the content in memory.
SaveBegin(op, path, q) ==
    /\ spc = "idle"
    /\ entries' = q
    /\ lastOp' = [op |-> op, key |-> path]
    /\ spc' = "create"
    /\ UNCHANGED <<disk, temp, allOk>>
    /\ UNCHANGED OtherThanSave

\* fs::write(temp_path, ..), first half: the temp file is created or
\* truncated; an error ends save with the temp file as it was.
TempCreate(ok) ==
    /\ spc = "create"
    /\ IF ok
       THEN /\ temp' = [exists |-> TRUE, tables |-> {}]
            /\ spc' = IF Serialize(entries).tables = {} THEN "rename" ELSE "write"
            /\ UNCHANGED allOk
       ELSE /\ spc' = "idle"
            /\ allOk' = FALSE
            /\ UNCHANGED temp
    /\ UNCHANGED <<entries, disk, lastOp>>
    /\ UNCHANGED OtherThanSave

\* fs::write(temp_path, ..), second half: write_all hands the content to the
\* file piece by piece; an error ends save with a partial temp file.
TempWrite(piece, ok) ==
    /\ spc = "write"
    /\ piece # {}
    /\ piece \subseteq Serialize(entries).tables \ temp.tables
    /\ IF ok
       THEN /\ temp' = [temp EXCEPT !.tables = @ \cup piece]
            /\ spc' = IF temp'.tables = Serialize(entries).tables THEN "rename" ELSE "write"
            /\ UNCHANGED allOk
       ELSE /\ spc' = "idle"
            /\ allOk' = FALSE
            /\ UNCHANGED temp
    /\ UNCHANGED <<entries, disk, lastOp>>
    /\ UNCHANGED OtherThanSave

\* A save that renames the temp file as soon as it exists.
RenameBeforeWritten(ok) ==
    /\ spc \in {"write", "rename"}
    /\ IF ok
       THEN /\ disk' = temp
            /\ temp' = NoFile
            /\ UNCHANGED allOk
       ELSE /\ allOk' = FALSE
            /\ UNCHANGED <<disk, temp>>
    /\ spc' = "idle"
    /\ UNCHANGED <<entries, lastOp>>
    /\ UNCHANGED OtherThanSave

\* fs::rename(temp_path, PENDING_BACKUPS_PATH): the temp file takes the place
\* of the canonical file in one step, or the call fails and changes nothing.
Rename(ok) ==
    /\ spc = "rename"
    /\ IF ok
       THEN /\ disk' = temp
            /\ temp' = NoFile
            /\ UNCHANGED allOk
       ELSE /\ allOk' = FALSE
            /\ UNCHANGED <<disk, temp>>
    /\ spc' = "idle"
    /\ UNCHANGED <<entries, lastOp>>
    /\ UNCHANGED OtherThanSave

\* The process stops, wherever save stands, and starts again: the files stay
\* as they are and main loads the queue from the canonical one.
SaveCrash ==
    /\ entries' = Load(disk)
    /\ lastOp' = [op |-> "load", key |-> "none"]
    /\ allOk' = TRUE
    /\ spc' = "idle"
    /\ UNCHANGED <<disk, temp>>
    /\ UNCHANGED OtherThanSave

InitSave ==
    /\ entries = << >>
    /\ disk = NoFile
    /\ lastOp = [op |-> "load", key |-> "none"]
    /\ allOk = TRUE
    /\ SaveParked
    /\ SchedParked
    /\ PassParked
    /\ PageParked
    /\ WorkerParked
    /\ UploadParked
    /\ TokenParked
    /\ DeviceParked
    /\ OutcomeParked
    /\ LockParked

NextSave ==
    \/ \E path \in Paths : SaveBegin("add", path, Insert(entries, path, NewBackup(path)))
    \/ \E path \in Paths : SaveBegin("remove", path, Delete(entries, path))
    \/ \E path \in DOMAIN entries :
           SaveBegin("mark_in_progress", path, [entries EXCEPT ![path].status = InProgress])
    \/ \E ok \in BOOLEAN : TempCreate(ok)
    \/ \E piece \in SUBSET Serialize(entries).tables, ok \in BOOLEAN : TempWrite(piece, ok)
    \/ \E ok \in BOOLEAN : Rename(ok)
    \/ SaveCrash

SpecSave == InitSave /\ [][NextSave]_vars

\* ------------------------------------------------------------------------
\* BackupWorker
\* ------------------------------------------------------------------------

\* BackupWorkerConfig.max_retries
max_retries == MaxRetryCount

\* A mark_failed that records the failure without counting it.
mark_failed_uncounted(q, k, error) ==
    IF k \in DOMAIN q
    THEN [q EXCEPT ![k].status = Failed(error)]
    ELSE q

\* The queue after mark_failed / mark_in_progress / reset_to_pending /
\* remove: the in-memory change, made before the save is tried.
mark_failed(q, k, error) ==
    IF k \in DOMAIN q
    THEN [q EXCEPT ![k].status = Failed(error), ![k].retry_count = @ + 1]
    ELSE q

mark_in_progress(q, k) ==
    IF k \in DOMAIN q THEN [q EXCEPT ![k].status = InProgress] ELSE q

reset_to_pending(q, k) ==
    IF k \in DOMAIN q THEN [q EXCEPT ![k].status = Pending] ELSE q

\* The file after a call that saves only when it found the key.
SaveIfFound(q, k, written) == IF k \in DOMAIN entries THEN Save(q, written) ELSE disk

PathsOf(backups) == {backups[i].local_path : i \in DOMAIN backups}

\* The orders in which a Vec collected from the HashMap can list the paths.
Orders(S) ==
    {f \in [1..Cardinality(S) -> S] : \A i, j \in DOMAIN f : i # j => f[i] # f[j]}

\* What a process of this program can have left in the queue file: an entry
\* is Pending or InProgress with fewer than max_retries failures, or Failed
\* with at least one failure and at most max_retries.
EntryStates ==
    {[retry_count |-> n, status |-> st] :
        n \in 0..(max_retries - 1), st \in {Pending, InProgress}}
    \cup {[retry_count |-> n, status |-> Failed(e)] : n \in 1..max_retries, e \in Errors}

QueueFiles ==
    {NoFile} \cup
    UNION {{Serialize([k \in K |-> [local_path |-> k,
                                   retry_count |-> f[k].retry_count,
                                   status |-> f[k].status]]) :
               f \in [K -> EntryStates]} : K \in SUBSET Paths}

\* interval.tick() returns: the snapshot of the pending paths; without one
\* the worker waits for the next tick.
WorkerTick ==
    /\ wpc = "tick"
    /\ LET pending_paths == PathsOf(get_pending(entries))
       IN  IF pending_paths = {}
           THEN /\ ticked' = TRUE
                /\ UNCHANGED <<wpc, snapshot>>
           ELSE /\ snapshot' \in Orders(pending_paths)
                /\ wpc' = "loop"
                /\ UNCHANGED ticked
    /\ marked' = {}
    /\ UNCHANGED <<files, current, uploaded, attempts>>
    /\ UNCHANGED <<queueVars, schedVars, passVars, pageVars, uploadVars, saveVars, tokenVars, deviceVars, outcomeVars>>
    /\ lock' = "free"
    /\ held_ops' = 1

\* A worker that keeps the guard taken for mark_in_progress while it awaits
\* the upload.
WorkerVisitHoldsLock(written) ==
    /\ wpc = "loop"
    /\ snapshot # << >>
    /\ LET local_path == Head(snapshot)
       IN  /\ snapshot' = Tail(snapshot)
           /\ IF local_path \notin files
              THEN /\ entries' = mark_failed(entries, local_path, "file missing")
                   /\ disk' = SaveIfFound(entries', local_path, written)
                   /\ lastOp' = [op |-> "mark_failed", key |-> local_path]
                   /\ allOk' = (allOk /\ (written \/ local_path \notin DOMAIN entries))
                   /\ UNCHANGED <<wpc, current, attempts, marked>>
              ELSE IF local_path \notin DOMAIN entries
                      \/ entries[local_path].retry_count >= max_retries
              THEN /\ written
                   /\ UNCHANGED <<queueVars, wpc, current, attempts, marked>>
              ELSE /\ entries' = mark_in_progress(entries, local_path)
                   /\ disk' = Save(entries', written)
                   /\ lastOp' = [op |-> "mark_in_progress", key |-> local_path]
                   /\ allOk' = (allOk /\ written)
                   /\ marked' = marked \cup {local_path}
                   /\ IF written
                      THEN /\ wpc' = "upload"
                           /\ current' = local_path
                           /\ attempts' = [attempts EXCEPT ![local_path] = @ + 1]
                      ELSE UNCHANGED <<wpc, current, attempts>>
    /\ UNCHANGED <<files, uploaded, ticked>>
    /\ UNCHANGED <<schedVars, passVars, pageVars, uploadVars, saveVars, tokenVars, deviceVars, outcomeVars>>
    /\ lock' = IF wpc' = "upload" THEN "worker" ELSE "free"
    /\ held_ops' = 1

\* One iteration of the for loop up to the upload: the file check with
\* mark_failed("file missing"), the retry check, mark_in_progress.
WorkerVisit(written) ==
    /\ wpc = "loop"
    /\ snapshot # << >>
    /\ LET local_path == Head(snapshot)
       IN  /\ snapshot' = Tail(snapshot)
           /\ IF local_path \notin files
              THEN /\ entries' = mark_failed(entries, local_path, "file missing")
                   /\ disk' = SaveIfFound(entries', local_path, written)
                   /\ lastOp' = [op |-> "mark_failed", key |-> local_path]
                   /\ allOk' = (allOk /\ (written \/ local_path \notin DOMAIN entries))
                   /\ UNCHANGED <<wpc, current, attempts, marked>>
              ELSE IF local_path \notin DOMAIN entries
                      \/ entries[local_path].retry_count >= max_retries
              THEN /\ written
                   /\ UNCHANGED <<queueVars, wpc, current, attempts, marked>>
              ELSE /\ entries' = mark_in_progress(entries, local_path)
                   /\ disk' = Save(entries', written)
                   /\ lastOp' = [op |-> "mark_in_progress", key |-> local_path]
                   /\ allOk' = (allOk /\ written)
                   /\ marked' = marked \cup {local_path}
                   /\ IF written
                      THEN /\ wpc' = "upload"
                           /\ current' = local_path
                           /\ attempts' = [attempts EXCEPT ![local_path] = @ + 1]
                      ELSE UNCHANGED <<wpc, current, attempts>>
    /\ UNCHANGED <<files, uploaded, ticked>>
    /\ UNCHANGED <<schedVars, passVars, pageVars, uploadVars, saveVars, tokenVars, deviceVars, outcomeVars>>
    /\ lock' = "free"
    /\ held_ops' = 1

\* A worker that deletes the local file whatever the upload returned.
WorkerUploadDoneAlwaysUnlinks(ok, error, written) ==
    /\ wpc = "upload"
    /\ IF ok
       THEN /\ entries' = Delete(entries, current)
            /\ disk' = Save(entries', written)
            /\ lastOp' = [op |-> "remove", key |-> current]
            /\ uploaded' = uploaded \cup {current}
       ELSE /\ entries' = mark_failed(entries, current, error)
            /\ disk' = SaveIfFound(entries', current, written)
            /\ lastOp' = [op |-> "mark_failed", key |-> current]
            /\ UNCHANGED uploaded
    /\ wpc' = "unlink"
    /\ allOk' = (allOk /\ written)
    /\ UNCHANGED <<files, snapshot, current, ticked, attempts, marked>>
    /\ UNCHANGED <<schedVars, passVars, pageVars, uploadVars, saveVars, tokenVars, deviceVars, outcomeVars>>
    /\ lock' = "free"
    /\ held_ops' = 1

\* upload_to_cloud returns: on Ok the entry is removed from the queue, on
\* Err it is marked failed with the error text.
WorkerUploadDone(ok, error, written) ==
    /\ wpc = "upload"
    /\ IF ok
       THEN /\ entries' = Delete(entries, current)
            /\ disk' = Save(entries', written)
            /\ lastOp' = [op |-> "remove", key |-> current]
            /\ uploaded' = uploaded \cup {current}
            /\ wpc' = "unlink"
            /\ UNCHANGED current
       ELSE /\ entries' = mark_failed(entries, current, error)
            /\ disk' = SaveIfFound(entries', current, written)
            /\ lastOp' = [op |-> "mark_failed", key |-> current]
            /\ wpc' = "loop"
            /\ current' = "none"
            /\ UNCHANGED uploaded
    /\ allOk' = (allOk /\ written)
    /\ UNCHANGED <<files, snapshot, ticked, attempts, marked>>
    /\ UNCHANGED <<schedVars, passVars, pageVars, uploadVars, saveVars, tokenVars, deviceVars, outcomeVars>>
    /\ lock' = "free"
    /\ held_ops' = 1

\* A worker that puts the entry back when it cannot delete the local file.
WorkerUnlinkRollsBack(deleted) ==
    /\ wpc = "unlink"
    /\ files' = IF deleted THEN files \ {current} ELSE files
    /\ entries' = IF deleted THEN entries ELSE Insert(entries, current, NewBackup(current))
    /\ wpc' = "loop"
    /\ current' = "none"
    /\ UNCHANGED <<snapshot, uploaded, ticked, attempts, marked>>
    /\ UNCHANGED <<disk, lastOp, allOk, schedVars, passVars, pageVars, uploadVars, saveVars, tokenVars, deviceVars, outcomeVars, lockVars>>

\* After a successful upload: tokio::fs::remove_file; a failure is logged.
WorkerUnlink(deleted) ==
    /\ wpc = "unlink"
    /\ files' = IF deleted THEN files \ {current} ELSE files
    /\ wpc' = "loop"
    /\ current' = "none"
    /\ UNCHANGED <<snapshot, uploaded, ticked, attempts, marked>>
    /\ UNCHANGED <<queueVars, schedVars, passVars, pageVars, uploadVars, saveVars, tokenVars, deviceVars, outcomeVars, lockVars>>

\* A reset that takes every Failed entry, whatever its retry_count.
WorkerResetStartTakesAll ==
    /\ wpc = "loop"
    /\ snapshot = << >>
    /\ LET failed_paths == PathsOf(get_failed(entries, max_retries + 1))
       IN  IF failed_paths = {}
           THEN /\ wpc' = "tick"
                /\ ticked' = TRUE
                /\ UNCHANGED snapshot
           ELSE /\ snapshot' \in Orders(failed_paths)
                /\ wpc' = "reset"
                /\ UNCHANGED ticked
    /\ UNCHANGED <<files, current, uploaded, attempts, marked>>
    /\ UNCHANGED <<queueVars, schedVars, passVars, pageVars, uploadVars, saveVars, tokenVars, deviceVars, outcomeVars>>
    /\ lock' = IF wpc' = "reset" THEN "worker" ELSE "free"
    /\ held_ops' = IF wpc' = "reset" THEN 0 ELSE 1

\* The for loop is over: reset_failed_for_retry locks the queue, collects
\* the Failed entries with retries left and unlocks; without one the tick is
\* finished, otherwise the queue is locked again for the resets.
WorkerResetStart ==
    /\ wpc = "loop"
    /\ snapshot = << >>
    /\ LET failed_paths == PathsOf(get_failed(entries, max_retries))
       IN  IF failed_paths = {}
           THEN /\ wpc' = "tick"
                /\ ticked' = TRUE
                /\ UNCHANGED snapshot
           ELSE /\ snapshot' \in Orders(failed_paths)
                /\ wpc' = "reset"
                /\ UNCHANGED ticked
    /\ UNCHANGED <<files, current, uploaded, attempts, marked>>
    /\ UNCHANGED <<queueVars, schedVars, passVars, pageVars, uploadVars, saveVars, tokenVars, deviceVars, outcomeVars>>
    /\ lock' = IF wpc' = "reset" THEN "worker" ELSE "free"
    /\ held_ops' = IF wpc' = "reset" THEN 0 ELSE 1

\* reset_failed_for_retry: reset_to_pending for the next collected path,
\* under the lock taken before the loop; after the last one the guard is
\* dropped and the tick is finished.
WorkerResetStep(written) ==
    /\ wpc = "reset"
    /\ LET path == Head(snapshot)
       IN  /\ entries' = reset_to_pending(entries, path)
           /\ disk' = SaveIfFound(entries', path, written)
           /\ lastOp' = [op |-> "reset_to_pending", key |-> path]
           /\ allOk' = (allOk /\ written)
    /\ snapshot' = Tail(snapshot)
    /\ wpc' = IF snapshot' = << >> THEN "tick" ELSE "reset"
    /\ ticked' = (ticked \/ snapshot' = << >>)
    /\ UNCHANGED <<files, current, uploaded, attempts, marked>>
    /\ UNCHANGED <<schedVars, passVars, pageVars, uploadVars, saveVars, tokenVars, deviceVars, outcomeVars>>
    /\ lock' = IF wpc' = "reset" THEN "worker" ELSE "free"
    /\ held_ops' = held_ops + 1

InitWorker ==
    /\ disk \in QueueFiles
    /\ entries = Load(disk)
    /\ lastOp = [op |-> "load", key |-> "none"]
    /\ allOk = TRUE
    /\ files \in SUBSET Paths
    /\ wpc = "tick"
    /\ snapshot = << >>
    /\ current = "none"
    /\ uploaded = {}
    /\ ticked = FALSE
    /\ attempts = [p \in Paths |-> 0]
    /\ marked = {}
    /\ SchedParked
    /\ PassParked
    /\ PageParked
    /\ UploadParked
    /\ SaveParked
    /\ TokenParked
    /\ DeviceParked
    /\ OutcomeParked
    /\ LockParked

NextWorker ==
    \/ WorkerTick
    \/ \E written \in BOOLEAN : WorkerVisit(written)
    \/ \E ok \in BOOLEAN, error \in Errors \ {"file missing"}, written \in BOOLEAN :
           WorkerUploadDone(ok, error, written)
    \/ \E deleted \in BOOLEAN : WorkerUnlink(deleted)
    \/ WorkerResetStart
    \/ \E written \in BOOLEAN : WorkerResetStep(written)
    \/ Restart

SpecWorker == InitWorker /\ [][NextWorker]_vars

\* The worker of one process whose queue saves all succeed and whose local
\* files are all present when the process starts.
InitWorkerLive ==
    /\ InitWorker
    /\ files = Paths

NextWorkerLive ==
    \/ WorkerTick
    \/ WorkerVisit(TRUE)
    \/ \E ok \in BOOLEAN, error \in Errors \ {"file missing"} :
           WorkerUploadDone(ok, error, TRUE)
    \/ \E deleted \in BOOLEAN : WorkerUnlink(deleted)
    \/ WorkerResetStart
    \/ WorkerResetStep(TRUE)

\* The interval ticks for ever and the upload and the file deletion return.
FairSpecWorker ==
    /\ InitWorkerLive
    /\ [][NextWorkerLive]_vars
    /\ WF_vars(NextWorkerLive)

\* ------------------------------------------------------------------------
\* run_cleanup after the pagination: classification, deletion, backup
\* ------------------------------------------------------------------------

\* A message id is a snowflake: it carries the creation time, kept here as
\* the age in days at the time of the pass.
MessageIdOf(n, age) == [n |-> n, age |-> age]

MessageOf(n, age, attachments) ==
    [id |-> MessageIdOf(n, age), timestamp |-> age, attachments |-> attachments]

\* What the pagination can hand over: up to MaxMsgs expired messages, newest
\* first (ids descending, ages not decreasing), with ages among A.
ExpiredLists(A) ==
    UNION {
        {[i \in 1..len |-> MessageOf(len + 1 - i, ages[i], atts[i])] :
            ages \in {a \in [1..len -> A] :
                         \A i \in 1..len : \A j \in i..len : a[i] <= a[j]},
            atts \in [1..len -> AttachmentLists]}
        : len \in 0..MaxMsgs}

IsMedia(kind) == kind = "media"

\* AttachmentsExt::extract_media: the media attachments of a message.
extract_media(attachments) == SelectSeq(attachments, IsMedia)

NoMedia(message) == extract_media(message.attachments) = << >>

WithMedia(message) == extract_media(message.attachments) # << >>

NoAttachment(message) == message.attachments = << >>

WithAttachment(message) == message.attachments # << >>

DeleteJobOf(message) == [message_id |-> message.id]

BackupJobOf(message) ==
    [message_id |-> message.id,
     attachments |-> extract_media(message.attachments),
     timestamp |-> message.timestamp]

DeleteJobsOf(messages) == [i \in 1..Len(messages) |-> DeleteJobOf(messages[i])]

BackupJobsOf(messages) == [i \in 1..Len(messages) |-> BackupJobOf(messages[i])]

\* A classification that looks at all attachments instead of the media ones.
classify_messages_any_attachment(messages) ==
    [delete_jobs |-> DeleteJobsOf(SelectSeq(messages, NoAttachment)),
     backup_jobs |-> BackupJobsOf(SelectSeq(messages, WithAttachment))]

\* classify_messages: in the order of the messages, a message without media
\* is pushed to delete_jobs and a message with media to backup_jobs.
classify_messages(messages) ==
    [delete_jobs |-> DeleteJobsOf(SelectSeq(messages, NoMedia)),
     backup_jobs |-> BackupJobsOf(SelectSeq(messages, WithMedia))]

\* created_at() > bulk_delete_cutoff, with both times taken back from now.
BulkEligible(job) == job.message_id.age < BULK_DELETE_THRESHOLD

NotBulkEligible(job) == ~BulkEligible(job)

\* A partition that keeps a bulk set of any size.
PartitionKeepsSmallBulk(jobs) ==
    [bulk_jobs |-> SelectSeq(jobs, BulkEligible),
     individual_jobs |-> SelectSeq(jobs, NotBulkEligible)]

\* The partition of delete_messages and the fold of a too small bulk set
\* into the individual jobs.
Partition(jobs) ==
    LET bulk == SelectSeq(jobs, BulkEligible)
        individual == SelectSeq(jobs, NotBulkEligible)
    IN  IF Len(bulk) < BULK_DELETE_MIN
        THEN [bulk_jobs |-> << >>, individual_jobs |-> individual \o bulk]
        ELSE [bulk_jobs |-> bulk, individual_jobs |-> individual]

Min(a, b) == IF a <= b THEN a ELSE b

\* bulk_jobs.chunks(BULK_DELETE_MAX)
NumChunks(jobs) == (Len(jobs) + BULK_DELETE_MAX - 1) \div BULK_DELETE_MAX

Chunk(jobs, i) ==
    SubSeq(jobs, (i - 1) * BULK_DELETE_MAX + 1, Min(i * BULK_DELETE_MAX, Len(jobs)))

IdsOf(jobs) == [i \in DOMAIN jobs |-> jobs[i].message_id]

\* The platform's answer to a delete call for the ids: the call is rejected
\* as a whole when it names a message the platform refuses to delete,
\* otherwise the named messages are gone.
AfterDelete(ids) ==
    LET Stays(n) == n \notin {ids[i].n : i \in DOMAIN ids}
    IN  IF \E i \in DOMAIN ids : ids[i].n \in history.undeletable
        THEN platform
        ELSE SelectSeq(platform, Stays)

\* The disable command reaches the running pass: remove_channel drops the
\* channel's entry with its cursor, then cancel_rx turns true.
PassCancel ==
    /\ ppc # "done"
    /\ ~cancelled
    /\ cancelled' = TRUE
    /\ enabled' = FALSE
    /\ pagination_cursor' = << >>
    /\ cleared' = FALSE
    /\ UNCHANGED <<expired_messages, ppc, delete_jobs, backup_jobs, bulk_jobs,
                   individual_jobs, idx, bulkCalls, singleCalls, downloads>>
    /\ UNCHANGED <<history, platform, cursor, round, reached_end, passes, heldMin>>
    /\ UNCHANGED <<schedVars, queueVars, workerVars, uploadVars, saveVars, tokenVars, deviceVars, outcomeVars, lockVars>>

\* From the end of the pagination to the entry of delete_messages: nothing
\* expired ends the pass; otherwise classify, check the cancellation, and
\* partition the delete jobs.
Classify ==
    /\ ppc = "start"
    /\ IF expired_messages = << >>
       THEN /\ ppc' = "done"
            /\ UNCHANGED <<delete_jobs, backup_jobs, bulk_jobs, individual_jobs>>
       ELSE LET classified == classify_messages(expired_messages)
                parts == Partition(classified.delete_jobs)
            IN  /\ delete_jobs' = classified.delete_jobs
                /\ backup_jobs' = classified.backup_jobs
                /\ IF cancelled
                   THEN /\ ppc' = "done"
                        /\ UNCHANGED <<bulk_jobs, individual_jobs>>
                   ELSE IF classified.delete_jobs = << >>
                   THEN /\ ppc' = "check"
                        /\ UNCHANGED <<bulk_jobs, individual_jobs>>
                   ELSE /\ ppc' = "bulk"
                        /\ bulk_jobs' = parts.bulk_jobs
                        /\ individual_jobs' = parts.individual_jobs
    /\ idx' = 1
    /\ UNCHANGED <<expired_messages, cancelled, bulkCalls, singleCalls, downloads>>
    /\ UNCHANGED <<schedVars, queueVars, pageVars, workerVars, uploadVars, saveVars, tokenVars, deviceVars, lockVars>>
    /\ result' = IF ppc' = "done" THEN "ok" ELSE result
    /\ UNCHANGED <<download_errors, dropped>>

\* One round of the chunk loop of delete_messages: the cancellation
\* checkpoint, then the bulk delete call (a failure is logged) and the delay.
BulkStep ==
    /\ ppc = "bulk"
    /\ IF idx > NumChunks(bulk_jobs)
       THEN /\ ppc' = "single"
            /\ idx' = 1
            /\ UNCHANGED bulkCalls
       ELSE IF cancelled
       THEN /\ ppc' = "check"
            /\ idx' = 1
            /\ UNCHANGED bulkCalls
       ELSE /\ bulkCalls' = Append(bulkCalls, IdsOf(Chunk(bulk_jobs, idx)))
            /\ idx' = idx + 1
            /\ UNCHANGED ppc
    /\ platform' = IF ppc' = "bulk"
                   THEN AfterDelete(IdsOf(Chunk(bulk_jobs, idx)))
                   ELSE platform
    /\ UNCHANGED <<expired_messages, cancelled, delete_jobs, backup_jobs, bulk_jobs,
                   individual_jobs, singleCalls, downloads>>
    /\ UNCHANGED <<history, enabled, pagination_cursor, cursor, round, reached_end,
                   passes, cleared, heldMin>>
    /\ UNCHANGED <<schedVars, queueVars, workerVars, uploadVars, saveVars, tokenVars, deviceVars, outcomeVars, lockVars>>

\* An item loop that deletes without looking at the cancellation flag.
SingleStepNoCheck ==
    /\ ppc = "single"
    /\ IF individual_jobs = << >> \/ idx > Len(delete_jobs)
       THEN /\ ppc' = "check"
            /\ idx' = 1
            /\ UNCHANGED singleCalls
       ELSE /\ singleCalls' = Append(singleCalls, delete_jobs[idx].message_id)
            /\ idx' = idx + 1
            /\ UNCHANGED ppc
    /\ platform' = IF ppc' = "single"
                   THEN AfterDelete(<<delete_jobs[idx].message_id>>)
                   ELSE platform
    /\ UNCHANGED <<expired_messages, cancelled, delete_jobs, backup_jobs, bulk_jobs,
                   individual_jobs, bulkCalls, downloads>>
    /\ UNCHANGED <<history, enabled, pagination_cursor, cursor, round, reached_end,
                   passes, cleared, heldMin>>
    /\ UNCHANGED <<schedVars, queueVars, workerVars, uploadVars, saveVars, tokenVars, deviceVars, outcomeVars, lockVars>>

\* One round of the item loop of delete_messages, entered when
\* individual_jobs is not empty and running over jobs.
SingleStep ==
    /\ ppc = "single"
    /\ IF individual_jobs = << >> \/ idx > Len(delete_jobs) \/ cancelled
       THEN /\ ppc' = "check"
            /\ idx' = 1
            /\ UNCHANGED singleCalls
       ELSE /\ singleCalls' = Append(singleCalls, delete_jobs[idx].message_id)
            /\ idx' = idx + 1
            /\ UNCHANGED ppc
    /\ platform' = IF ppc' = "single"
                   THEN AfterDelete(<<delete_jobs[idx].message_id>>)
                   ELSE platform
    /\ UNCHANGED <<expired_messages, cancelled, delete_jobs, backup_jobs, bulk_jobs,
                   individual_jobs, bulkCalls, downloads>>
    /\ UNCHANGED <<history, enabled, pagination_cursor, cursor, round, reached_end,
                   passes, cleared, heldMin>>
    /\ UNCHANGED <<schedVars, queueVars, workerVars, uploadVars, saveVars, tokenVars, deviceVars, outcomeVars, lockVars>>

\* "Check cancellation again", then the entry of process_backup_jobs.
CheckBeforeBackup ==
    /\ ppc = "check"
    /\ ppc' = IF cancelled \/ backup_jobs = << >> THEN "done" ELSE "backup"
    /\ idx' = 1
    /\ UNCHANGED <<expired_messages, cancelled, delete_jobs, backup_jobs, bulk_jobs,
                   individual_jobs, bulkCalls, singleCalls, downloads>>
    /\ UNCHANGED <<schedVars, queueVars, pageVars, workerVars, uploadVars, saveVars, tokenVars, deviceVars, lockVars>>
    /\ result' = IF ppc' = "done" THEN "ok" ELSE result
    /\ UNCHANGED <<download_errors, dropped>>

\* A loop of process_backup_jobs that a failed download ends with its error.
BackupJobStepAbortsOnFailure ==
    /\ ppc = "backup"
    /\ IF idx > Len(backup_jobs) \/ cancelled
       THEN /\ ppc' = "done"
            /\ result' = "ok"
            /\ idx' = 1
            /\ UNCHANGED <<downloads, download_errors>>
       ELSE /\ downloads' = Append(downloads, backup_jobs[idx].message_id)
            /\ \E failed \in BOOLEAN :
                   /\ download_errors' = IF failed
                                         THEN download_errors \cup {backup_jobs[idx].message_id}
                                         ELSE download_errors
                   /\ ppc' = IF failed THEN "done" ELSE ppc
                   /\ result' = IF failed THEN "err" ELSE result
            /\ idx' = idx + 1
    /\ UNCHANGED <<expired_messages, cancelled, delete_jobs, backup_jobs, bulk_jobs,
                   individual_jobs, bulkCalls, singleCalls, dropped>>
    /\ UNCHANGED <<schedVars, queueVars, pageVars, workerVars, uploadVars, saveVars, tokenVars, deviceVars, lockVars>>

\* One round of the loop of process_backup_jobs: the cancellation
\* checkpoint, then the download, whose failure is logged; the message is
\* not deleted.
BackupJobStep ==
    /\ ppc = "backup"
    /\ IF idx > Len(backup_jobs) \/ cancelled
       THEN /\ ppc' = "done"
            /\ result' = "ok"
            /\ idx' = 1
            /\ UNCHANGED <<downloads, download_errors>>
       ELSE /\ downloads' = Append(downloads, backup_jobs[idx].message_id)
            /\ \E failed \in BOOLEAN :
                   download_errors' = IF failed
                                      THEN download_errors \cup {backup_jobs[idx].message_id}
                                      ELSE download_errors
            /\ idx' = idx + 1
            /\ UNCHANGED <<ppc, result>>
    /\ UNCHANGED <<expired_messages, cancelled, delete_jobs, backup_jobs, bulk_jobs,
                   individual_jobs, bulkCalls, singleCalls, dropped>>
    /\ UNCHANGED <<schedVars, queueVars, pageVars, workerVars, uploadVars, saveVars, tokenVars, deviceVars, lockVars>>

InitPassOn(A) ==
    /\ expired_messages \in ExpiredLists(A)
    /\ ppc = "start"
    /\ cancelled \in BOOLEAN
    /\ delete_jobs = << >>
    /\ backup_jobs = << >>
    /\ bulk_jobs = << >>
    /\ individual_jobs = << >>
    /\ idx = 1
    /\ bulkCalls = << >>
    /\ singleCalls = << >>
    /\ downloads = << >>
    /\ SchedParked
    /\ QueueParked
    /\ PageParked
    /\ WorkerParked
    /\ UploadParked
    /\ SaveParked
    /\ TokenParked
    /\ DeviceParked
    /\ OutcomeParked
    /\ LockParked

NextPass ==
    \/ PassCancel
    \/ Classify
    \/ BulkStep
    \/ SingleStep
    \/ CheckBeforeBackup
    \/ BackupJobStep

InitPass == InitPassOn(Ages)

SpecPass == InitPass /\ [][NextPass]_vars

\* Passes none of whose messages is exactly as old as the bulk-delete ceiling.
InitPassOffCeiling == InitPassOn(Ages \ {BULK_DELETE_THRESHOLD})

SpecPassOffCeiling == InitPassOffCeiling /\ [][NextPass]_vars

\* ------------------------------------------------------------------------
\* run_cleanup from its start: cursor, pagination, repeated passes
\* ------------------------------------------------------------------------

None == << >>

Some(x) == <<x>>

\* A channel history: messages 1 (oldest) .. total; the newest `fresh` ones
\* are not expired, the next `young` ones are expired and young, the rest is
\* expired and old; the messages in `media` carry an image, the others no
\* attachment; the platform refuses to delete the messages in `undeletable`.
HistoryOf(total, fresh, young, media, undeletable) ==
    [total |-> total, fresh |-> fresh, young |-> young, media |-> media,
     undeletable |-> undeletable]

\* Every history of up to MaxMsgs messages.
ShortHistories ==
    UNION {
        {HistoryOf(total, fresh, young, media, undeletable) :
            fresh \in 0..total, young \in 0..total,
            media \in SUBSET (1..total), undeletable \in SUBSET (1..total)}
        : total \in 0..MaxMsgs}

\* Histories long enough for full pages, for the target of expired messages
\* and for the limit of pagination rounds.
LongHistories ==
    {HistoryOf(OnePage, 0, OnePage, {}, {}),
     HistoryOf(PageAndHalf, PageAndHalf, 0, {}, {}),
     HistoryOf(PageAndHalf, 20, 60, {PageAndHalf}, {}),
     HistoryOf(TwoPagesAndHalf, 0, 120, {}, {}),
     HistoryOf(TwoPagesAndHalf, 20, TwoPagesAndHalf - 20, {}, {}),
     HistoryOf(BeyondRounds, BeyondRounds, 0, {}, {})}

Histories == {h \in ShortHistories : h.fresh + h.young <= h.total} \cup LongHistories

AgeOf(n) ==
    IF n > history.total - history.fresh THEN FreshAge
    ELSE IF n > history.total - history.fresh - history.young THEN YoungAge
    ELSE OldAge

AttachmentsOf(n) == IF n \in history.media THEN <<"media">> ELSE << >>

MessageAt(n) == MessageOf(n, AgeOf(n), AttachmentsOf(n))

\* channel_id.messages(request): the existing messages newest first, with a
\* cursor only those before it, at most MAX_MESSAGES_PER_FETCH of them.
Messages(before) ==
    LET NotBefore(n) == n >= before[1].n
        skip == IF before = None THEN 0 ELSE Len(SelectSeq(platform, NotBefore))
        page == SubSeq(platform, skip + 1,
                       Min(skip + MAX_MESSAGES_PER_FETCH, Len(platform)))
    IN  [i \in 1..Len(page) |-> MessageAt(page[i])]

IsExpired(m) == m.timestamp > retention_days

\* filter_expired_messages: timestamp < now - retention_days.
filter_expired_messages(messages) == SelectSeq(messages, IsExpired)

\* get_pagination_cursor
get_pagination_cursor == IF enabled THEN pagination_cursor ELSE None

Held(c) == IF c = None THEN heldMin
           ELSE IF heldMin = 0 \/ c[1].n < heldMin THEN c[1].n ELSE heldMin

\* The scheduler spawns a pass for the enabled channel: run_cleanup loads
\* the cursor and starts with empty collections and a fresh receiver.
StartPass ==
    /\ ppc = "done"
    /\ enabled
    /\ passes < MaxPasses
    /\ passes' = passes + 1
    /\ cleared' = FALSE
    /\ cursor' = get_pagination_cursor
    /\ heldMin' = Held(cursor')
    /\ round' = 0
    /\ reached_end' = FALSE
    /\ expired_messages' = << >>
    /\ cancelled' = FALSE
    /\ ppc' = "page"
    /\ delete_jobs' = << >>
    /\ backup_jobs' = << >>
    /\ bulk_jobs' = << >>
    /\ individual_jobs' = << >>
    /\ idx' = 1
    /\ bulkCalls' = << >>
    /\ singleCalls' = << >>
    /\ downloads' = << >>
    /\ UNCHANGED <<history, platform, enabled, pagination_cursor>>
    /\ UNCHANGED <<schedVars, queueVars, workerVars, uploadVars, saveVars, tokenVars, deviceVars, lockVars>>
    /\ result' = "none"
    /\ download_errors' = {}
    /\ dropped' = << >>

\* A pagination round whose loop has no bound on the number of rounds.
PageRoundNoCeiling(fetched) ==
    /\ ppc = "page"
    /\ IF cancelled
       THEN /\ ppc' = "done"
            /\ result' = "ok"
            /\ UNCHANGED <<cursor, round, reached_end, expired_messages, heldMin, dropped>>
       ELSE IF ~fetched
       THEN /\ ppc' = "done"
            /\ result' = "err"
            /\ round' = round + 1
            /\ UNCHANGED <<cursor, reached_end, expired_messages, heldMin, dropped>>
       ELSE LET messages == Messages(cursor)
                collected == expired_messages \o filter_expired_messages(messages)
                partial == Len(messages) < MAX_MESSAGES_PER_FETCH
            IN  /\ round' = round + 1
                /\ IF messages = << >>
                   THEN /\ reached_end' = TRUE
                        /\ ppc' = "persist"
                        /\ UNCHANGED <<cursor, expired_messages, dropped>>
                   ELSE IF Len(collected) >= TARGET_EXPIRED_MESSAGES
                   THEN /\ expired_messages' = SubSeq(collected, 1, TARGET_EXPIRED_MESSAGES)
                        /\ dropped' = SubSeq(collected, TARGET_EXPIRED_MESSAGES + 1,
                                             Len(collected))
                        /\ cursor' = Some(collected[TARGET_EXPIRED_MESSAGES].id)
                        /\ reached_end' = partial
                        /\ ppc' = "persist"
                   ELSE /\ expired_messages' = collected
                        /\ cursor' = Some(messages[Len(messages)].id)
                        /\ reached_end' = partial
                        /\ ppc' = IF partial THEN "persist" ELSE "page"
                        /\ UNCHANGED dropped
                /\ heldMin' = Held(cursor')
                /\ UNCHANGED result
    /\ UNCHANGED <<cancelled, delete_jobs, backup_jobs, bulk_jobs, individual_jobs, idx,
                   bulkCalls, singleCalls, downloads, download_errors>>
    /\ UNCHANGED <<history, platform, enabled, pagination_cursor, passes, cleared>>
    /\ UNCHANGED <<schedVars, queueVars, workerVars, uploadVars, saveVars, tokenVars, deviceVars, lockVars>>

\* One round of the pagination loop: the loop bound, the cancellation
\* checkpoint, the fetch (an error ends run_cleanup), the cursor at the
\* oldest fetched message, the end-of-history test, the filter, and the
\* truncation at the target with the cursor at the oldest message kept.
PageRound(fetched) ==
    /\ ppc = "page"
    /\ IF round = MAX_PAGINATION_ROUNDS
       THEN /\ ppc' = "persist"
            /\ UNCHANGED <<cursor, round, reached_end, expired_messages, heldMin,
                           result, dropped>>
       ELSE IF cancelled
       THEN /\ ppc' = "done"
            /\ result' = "ok"
            /\ UNCHANGED <<cursor, round, reached_end, expired_messages, heldMin, dropped>>
       ELSE IF ~fetched
       THEN /\ ppc' = "done"
            /\ result' = "err"
            /\ round' = round + 1
            /\ UNCHANGED <<cursor, reached_end, expired_messages, heldMin, dropped>>
       ELSE LET messages == Messages(cursor)
                collected == expired_messages \o filter_expired_messages(messages)
                partial == Len(messages) < MAX_MESSAGES_PER_FETCH
            IN  /\ round' = round + 1
                /\ IF messages = << >>
                   THEN /\ reached_end' = TRUE
                        /\ ppc' = "persist"
                        /\ UNCHANGED <<cursor, expired_messages, dropped>>
                   ELSE IF Len(collected) >= TARGET_EXPIRED_MESSAGES
                   THEN /\ expired_messages' = SubSeq(collected, 1, TARGET_EXPIRED_MESSAGES)
                        /\ dropped' = SubSeq(collected, TARGET_EXPIRED_MESSAGES + 1,
                                             Len(collected))
                        /\ cursor' = Some(collected[TARGET_EXPIRED_MESSAGES].id)
                        /\ reached_end' = partial
                        /\ ppc' = "persist"
                   ELSE /\ expired_messages' = collected
                        /\ cursor' = Some(messages[Len(messages)].id)
                        /\ reached_end' = partial
                        /\ ppc' = IF partial THEN "persist" ELSE "page"
                        /\ UNCHANGED dropped
                /\ heldMin' = Held(cursor')
                /\ UNCHANGED result
    /\ UNCHANGED <<cancelled, delete_jobs, backup_jobs, bulk_jobs, individual_jobs, idx,
                   bulkCalls, singleCalls, downloads, download_errors>>
    /\ UNCHANGED <<history, platform, enabled, pagination_cursor, passes, cleared>>
    /\ UNCHANGED <<schedVars, queueVars, workerVars, uploadVars, saveVars, tokenVars, deviceVars, lockVars>>

\* A persist step that stores the cursor whether or not the end of the
\* history was reached.
PersistCursorKeepsAtEnd(saved) ==
    /\ ppc = "persist"
    /\ IF enabled
       THEN /\ pagination_cursor' = cursor
            /\ ppc' = IF saved THEN "start" ELSE "done"
       ELSE /\ saved
            /\ ppc' = "start"
            /\ UNCHANGED pagination_cursor
    /\ UNCHANGED <<expired_messages, cancelled, delete_jobs, backup_jobs, bulk_jobs,
                   individual_jobs, idx, bulkCalls, singleCalls, downloads>>
    /\ UNCHANGED <<history, platform, enabled, cursor, round, reached_end, passes, cleared, heldMin>>
    /\ UNCHANGED <<schedVars, queueVars, workerVars, uploadVars, saveVars, tokenVars, deviceVars, lockVars>>
    /\ result' = IF ppc' = "done" THEN "err" ELSE result
    /\ UNCHANGED <<download_errors, dropped>>

\* A persist step that writes the cursor only when the pagination found an
\* expired message.
PersistCursorOnlyWhenExpired(saved) ==
    /\ ppc = "persist"
    /\ IF enabled /\ expired_messages # << >>
       THEN /\ pagination_cursor' = IF reached_end THEN None ELSE cursor
            /\ ppc' = IF saved THEN "start" ELSE "done"
       ELSE /\ saved
            /\ ppc' = "start"
            /\ UNCHANGED pagination_cursor
    /\ UNCHANGED <<expired_messages, cancelled, delete_jobs, backup_jobs, bulk_jobs,
                   individual_jobs, idx, bulkCalls, singleCalls, downloads>>
    /\ UNCHANGED <<history, platform, enabled, cursor, round, reached_end, passes, cleared, heldMin>>
    /\ UNCHANGED <<schedVars, queueVars, workerVars, uploadVars, saveVars, tokenVars, deviceVars, lockVars>>
    /\ result' = IF ppc' = "done" THEN "err" ELSE result
    /\ UNCHANGED <<download_errors, dropped>>

\* "Save pagination state": set_pagination_cursor changes the entry of a
\* channel that is still configured and saves the config; a failed save ends
\* run_cleanup with the entry changed in memory.
PersistCursor(saved) ==
    /\ ppc = "persist"
    /\ IF enabled
       THEN /\ pagination_cursor' = IF reached_end THEN None ELSE cursor
            /\ ppc' = IF saved THEN "start" ELSE "done"
       ELSE /\ saved
            /\ ppc' = "start"
            /\ UNCHANGED pagination_cursor
    /\ UNCHANGED <<expired_messages, cancelled, delete_jobs, backup_jobs, bulk_jobs,
                   individual_jobs, idx, bulkCalls, singleCalls, downloads>>
    /\ UNCHANGED <<history, platform, enabled, cursor, round, reached_end, passes, cleared, heldMin>>
    /\ UNCHANGED <<schedVars, queueVars, workerVars, uploadVars, saveVars, tokenVars, deviceVars, lockVars>>
    /\ result' = IF ppc' = "done" THEN "err" ELSE result
    /\ UNCHANGED <<download_errors, dropped>>

\* add_channel_config(channel_id, config): the entry is inserted with the
\* cursor of `config`, which is cleared first when the channel has an entry
\* and the new policy has fewer days than the old one.
add_channel_config(stricter, config_cursor) ==
    IF enabled /\ stricter THEN None ELSE config_cursor

\* The enable command: the channel's entry is inserted or replaced; the
\* ChannelConfig the command builds has pagination_cursor: None. `stricter`
\* says whether the policy of the command has fewer days than the policy of
\* the entry it replaces.
PassEnable(stricter) ==
    /\ enabled' = TRUE
    /\ pagination_cursor' = add_channel_config(stricter, None)
    /\ cleared' = IF enabled /\ stricter THEN TRUE ELSE cleared
    /\ UNCHANGED <<history, platform, cursor, round, reached_end, passes, heldMin>>
    /\ UNCHANGED <<passVars, schedVars, queueVars, workerVars, uploadVars, saveVars, tokenVars, deviceVars, outcomeVars, lockVars>>

InitCleanup ==
    /\ history \in Histories
    /\ platform = [i \in 1..history.total |-> history.total + 1 - i]
    /\ enabled = TRUE
    /\ pagination_cursor = None
    /\ cursor = None
    /\ round = 0
    /\ reached_end = FALSE
    /\ passes = 0
    /\ cleared = FALSE
    /\ heldMin = 0
    /\ PassParked
    /\ SchedParked
    /\ QueueParked
    /\ WorkerParked
    /\ UploadParked
    /\ SaveParked
    /\ TokenParked
    /\ DeviceParked
    /\ OutcomeParked
    /\ LockParked

NextCleanup ==
    \/ StartPass
    \/ \E fetched \in BOOLEAN : PageRound(fetched)
    \/ \E saved \in BOOLEAN : PersistCursor(saved)
    \/ \E stricter \in BOOLEAN : PassEnable(stricter)
    \/ NextPass

SpecCleanup == InitCleanup /\ [][NextCleanup]_vars

\* ------------------------------------------------------------------------
\* OneDriveClient::upload_file
\* ------------------------------------------------------------------------

\* Sizes in bytes of the files handed to upload_file: empty and tiny files,
\* files around the simple-upload limit, and files one byte short of, exactly
\* at and one byte over a whole number of chunks.
FileSizes ==
    {0, 1, SIMPLE_UPLOAD_LIMIT - 1, SIMPLE_UPLOAD_LIMIT, SIMPLE_UPLOAD_LIMIT + 1}
    \cup {k * CHUNK_SIZE + d : k \in 1..MaxChunks, d \in {-1, 0, 1}}

\* Answers of the storage service to a request.
Statuses == {200, 202, 500}

is_success(status) == status \in 200..299

\* format!("bytes {start}-{end}/{total_size}")
ContentRange(start, end, total_size) == <<"bytes", start, "-", end, "/", total_size>>

ChunkRequests == SelectSeq(requests, LAMBDA r : r.kind = "chunk")

\* upload_file: the size from the metadata decides between simple_upload
\* and resumable_upload; either starts by asking the token store for a token.
UploadStart(metadata_ok, token_ok) ==
    /\ upc = "start"
    /\ upc' = IF ~metadata_ok \/ ~token_ok THEN "failed"
              ELSE IF file_size < SIMPLE_UPLOAD_LIMIT THEN "simple"
              ELSE "session"
    /\ UNCHANGED <<file_size, requests>>
    /\ UNCHANGED <<schedVars, queueVars, passVars, pageVars, workerVars, saveVars, tokenVars, deviceVars, outcomeVars, lockVars>>

\* simple_upload: one PUT with the whole content; any status that is not a
\* success is an upload error.
SimpleUpload(read_ok, status) ==
    /\ upc = "simple"
    /\ IF ~read_ok
       THEN /\ status = 200
            /\ upc' = "failed"
            /\ UNCHANGED requests
       ELSE /\ requests' = Append(requests, [kind |-> "content", bytes |-> file_size,
                                             status |-> status])
            /\ upc' = IF is_success(status) THEN "ok" ELSE "failed"
    /\ UNCHANGED file_size
    /\ UNCHANGED <<schedVars, queueVars, passVars, pageVars, workerVars, saveVars, tokenVars, deviceVars, outcomeVars, lockVars>>

\* resumable_upload, first half: the POST that creates the upload session,
\* then the read of the file.
CreateSession(status, read_ok) ==
    /\ upc = "session"
    /\ requests' = Append(requests, [kind |-> "createUploadSession", status |-> status])
    /\ upc' = IF is_success(status) /\ read_ok THEN "chunks" ELSE "failed"
    /\ UNCHANGED file_size
    /\ UNCHANGED <<schedVars, queueVars, passVars, pageVars, workerVars, saveVars, tokenVars, deviceVars, outcomeVars, lockVars>>

\* A chunk loop whose Content-Range ends one byte after the chunk.
ChunkUploadEndExclusive(status) ==
    /\ upc = "chunks"
    /\ LET total_size == file_size
           chunk_num == Len(ChunkRequests)
           start == chunk_num * CHUNK_SIZE
           chunk_len == Min(CHUNK_SIZE, total_size - start)
           end == start + chunk_len
       IN  IF start >= total_size
           THEN /\ status = 200
                /\ upc' = "ok"
                /\ UNCHANGED requests
           ELSE /\ requests' = Append(requests,
                                      [kind |-> "chunk",
                                       range |-> ContentRange(start, end, total_size),
                                       bytes |-> chunk_len,
                                       status |-> status])
                /\ upc' = IF ~is_success(status) /\ status # 202 THEN "failed" ELSE "chunks"
    /\ UNCHANGED file_size
    /\ UNCHANGED <<schedVars, queueVars, passVars, pageVars, workerVars, saveVars, tokenVars, deviceVars, outcomeVars, lockVars>>

\* A chunk loop that sends the next chunk whatever the status of the last.
ChunkUploadGoesOn(status) ==
    /\ upc = "chunks"
    /\ LET total_size == file_size
           chunk_num == Len(ChunkRequests)
           start == chunk_num * CHUNK_SIZE
           chunk_len == Min(CHUNK_SIZE, total_size - start)
           end == start + chunk_len - 1
       IN  IF start >= total_size
           THEN /\ status = 200
                /\ upc' = "ok"
                /\ UNCHANGED requests
           ELSE /\ requests' = Append(requests,
                                      [kind |-> "chunk",
                                       range |-> ContentRange(start, end, total_size),
                                       bytes |-> chunk_len,
                                       status |-> status])
                /\ upc' = "chunks"
    /\ UNCHANGED file_size
    /\ UNCHANGED <<schedVars, queueVars, passVars, pageVars, workerVars, saveVars, tokenVars, deviceVars, outcomeVars, lockVars>>

\* resumable_upload, second half: one round of the loop over
\* content.chunks(CHUNK_SIZE): the PUT of the chunk with its Content-Range;
\* a success or 202 goes on, any other status aborts; after the last chunk
\* the upload is complete.
ChunkUpload(status) ==
    /\ upc = "chunks"
    /\ LET total_size == file_size
           chunk_num == Len(ChunkRequests)
           start == chunk_num * CHUNK_SIZE
           chunk_len == Min(CHUNK_SIZE, total_size - start)
           end == start + chunk_len - 1
       IN  IF start >= total_size
           THEN /\ status = 200
                /\ upc' = "ok"
                /\ UNCHANGED requests
           ELSE /\ requests' = Append(requests,
                                      [kind |-> "chunk",
                                       range |-> ContentRange(start, end, total_size),
                                       bytes |-> chunk_len,
                                       status |-> status])
                /\ upc' = IF ~is_success(status) /\ status # 202 THEN "failed" ELSE "chunks"
    /\ UNCHANGED file_size
    /\ UNCHANGED <<schedVars, queueVars, passVars, pageVars, workerVars, saveVars, tokenVars, deviceVars, outcomeVars, lockVars>>

InitUpload ==
    /\ file_size \in FileSizes
    /\ upc = "start"
    /\ requests = << >>
    /\ SchedParked
    /\ QueueParked
    /\ PassParked
    /\ PageParked
    /\ WorkerParked
    /\ SaveParked
    /\ TokenParked
    /\ DeviceParked
    /\ OutcomeParked
    /\ LockParked

NextUpload ==
    \/ \E metadata_ok, token_ok \in BOOLEAN : UploadStart(metadata_ok, token_ok)
    \/ \E read_ok \in BOOLEAN, status \in Statuses : SimpleUpload(read_ok, status)
    \/ \E status \in Statuses, read_ok \in BOOLEAN : CreateSession(status, read_ok)
    \/ \E status \in Statuses : ChunkUpload(status)

SpecUpload == InitUpload /\ [][NextUpload]_vars

\* upload_to_cloud has returned to run_worker: the Ok arm or the Err arm of
\* its match, with the error's text.
UploadReturns(written) ==
    /\ upc \in {"ok", "failed"}
    /\ WorkerUploadDone(upc = "ok", "upload failed", written)

\* The worker has marked the entry of a.png InProgress and calls
\* upload_to_cloud for it.
InitWorkerUpload ==
    /\ file_size \in FileSizes
    /\ upc = "start"
    /\ requests = << >>
    /\ entries = mark_in_progress(Insert(<< >>, "a.png", NewBackup("a.png")), "a.png")
    /\ disk = Serialize(entries)
    /\ lastOp = [op |-> "mark_in_progress", key |-> "a.png"]
    /\ allOk = TRUE
    /\ files = {"a.png"}
    /\ wpc = "upload"
    /\ snapshot = << >>
    /\ current = "a.png"
    /\ uploaded = {}
    /\ ticked = FALSE
    /\ attempts = [p \in Paths |-> IF p = "a.png" THEN 1 ELSE 0]
    /\ marked = {"a.png"}
    /\ lock = "free"
    /\ held_ops = 1
    /\ SchedParked
    /\ PassParked
    /\ PageParked
    /\ SaveParked
    /\ TokenParked
    /\ DeviceParked
    /\ OutcomeParked

NextWorkerUpload ==
    \/ NextUpload
    \/ \E written \in BOOLEAN : UploadReturns(written)

SpecWorkerUpload == InitWorkerUpload /\ [][NextWorkerUpload]_vars

\* ------------------------------------------------------------------------
\* TokenStore::get_valid_token
\* ------------------------------------------------------------------------

\* chrono::Duration::minutes(5)
buffer == 5

\* Lifetimes in minutes the token endpoint gives a new access token.
ExpiresIn == {3, 5, 6}

StoredTokens(access_token, refresh_token, expires_at) ==
    [access_token |-> access_token, refresh_token |-> refresh_token,
     expires_at |-> expires_at]

Ok(token) == [ok |-> TRUE, token |-> token]

Err(error) == [ok |-> FALSE, error |-> error]

OtherThanTokens == <<schedVars, queueVars, passVars, pageVars, workerVars, uploadVars,
                     saveVars, outcomeVars, lockVars, deviceVars>>

\* Time passes, also while a request is in flight.
TokenTick ==
    /\ now < MaxNow
    /\ now' = now + 1
    /\ UNCHANGED <<tokens, tokens_file, tpc, token_result, contacted>>
    /\ UNCHANGED OtherThanTokens

\* simple_upload or resumable_upload calls get_valid_token.
TokenCall ==
    /\ tpc = "idle"
    /\ tpc' = "called"
    /\ token_result' = None
    /\ contacted' = 0
    /\ UNCHANGED <<tokens, tokens_file, now>>
    /\ UNCHANGED OtherThanTokens

\* get_valid_token up to its first await: without tokens an Auth error; a
\* token whose expiry less the buffer is not after now goes to refresh_token;
\* any other is returned as it is stored.
GetValidToken ==
    /\ tpc = "called"
    /\ IF tokens = None
       THEN /\ token_result' = Err("Auth")
            /\ tpc' = "idle"
       ELSE IF tokens[1].expires_at - buffer <= now
       THEN /\ tpc' = "refresh"
            /\ UNCHANGED token_result
       ELSE /\ token_result' = Ok(tokens[1].access_token)
            /\ tpc' = "idle"
    /\ UNCHANGED <<tokens, tokens_file, now, contacted>>
    /\ UNCHANGED OtherThanTokens

\* refresh_token and the return of get_valid_token: the request fails to be
\* sent or its answer cannot be read (Http), is rejected (Auth), or brings
\* new tokens, which replace the stored ones before save_tokens writes the
\* file; a failed write (Io) leaves the file as it was or cut short, and
\* after a successful one the new access token is returned.
RefreshToken(outcome, expires_in, written, cut) ==
    /\ tpc = "refresh"
    /\ tpc' = "idle"
    /\ contacted' = contacted + 1
    /\ CASE outcome = "unsent" ->
                /\ token_result' = Err("Http")
                /\ UNCHANGED <<tokens, tokens_file>>
         [] outcome = "rejected" ->
                /\ token_result' = Err("Auth")
                /\ UNCHANGED <<tokens, tokens_file>>
         [] outcome = "granted" ->
                /\ tokens[1].access_token <= MaxRefreshes
                /\ tokens' = Some(StoredTokens(tokens[1].access_token + 1,
                                               tokens[1].refresh_token + 1,
                                               now + expires_in))
                /\ IF written
                   THEN /\ tokens_file' = tokens'
                        /\ token_result' = Ok(tokens'[1].access_token)
                   ELSE /\ tokens_file' = IF cut THEN None ELSE tokens_file
                        /\ token_result' = Err("Io")
    /\ UNCHANGED now
    /\ UNCHANGED OtherThanTokens

\* The process restarts: TokenStore::new loads the tokens from the file.
TokenRestart ==
    /\ tokens' = tokens_file
    /\ tpc' = "idle"
    /\ token_result' = None
    /\ contacted' = 0
    /\ UNCHANGED <<tokens_file, now>>
    /\ UNCHANGED OtherThanTokens

InitToken ==
    /\ tokens \in {None} \cup {Some(StoredTokens(1, 1, e)) : e \in 0..(MaxNow + buffer + 1)}
    /\ tokens_file = tokens
    /\ now = 0
    /\ tpc = "idle"
    /\ token_result = None
    /\ contacted = 0
    /\ SchedParked
    /\ QueueParked
    /\ PassParked
    /\ PageParked
    /\ WorkerParked
    /\ UploadParked
    /\ SaveParked
    /\ OutcomeParked
    /\ LockParked
    /\ DeviceParked

NextToken ==
    \/ TokenTick
    \/ TokenCall
    \/ GetValidToken
    \/ \E outcome \in {"unsent", "rejected", "granted"}, expires_in \in ExpiresIn,
          written \in BOOLEAN, cut \in BOOLEAN :
           RefreshToken(outcome, expires_in, written, cut)
    \/ TokenRestart

SpecToken == InitToken /\ [][NextToken]_vars

\* ------------------------------------------------------------------------
\* TokenStore::device_code_flow
\* ------------------------------------------------------------------------

\* Duration::from_secs(5), the sleep after a "slow_down" answer
SLOW_DOWN_DELAY == 5

\* Values in seconds of `interval` and `expires_in` in the answers of the
\* device code endpoint.
DeviceIntervals == {1, 2}

DeviceExpiries == {2, 8}

\* What the token endpoint can answer to a poll: the request is not sent or
\* its answer cannot be read, a token response, or an error response with
\* one of the error codes.
PollAnswers == {"unsent", "token", "authorization_pending", "slow_down", "access_denied"}

DeviceCode(interval, deadline) == [interval |-> interval, deadline |-> deadline, wake |-> 0]

OtherThanDevice == <<schedVars, queueVars, passVars, pageVars, workerVars, uploadVars,
                     saveVars, outcomeVars, lockVars, contacted>>

\* device_code_flow up to the loop: the device code request fails to be sent
\* or read (Http), is rejected (Auth), or brings the device code, from which
\* poll_interval and deadline are computed.
DeviceCodeRequest(outcome, interval, expires_in) ==
    /\ tpc = "idle"
    /\ token_result = None
    /\ device = None
    /\ CASE outcome = "unsent" ->
                /\ token_result' = Err("Http")
                /\ UNCHANGED <<device, tpc>>
         [] outcome = "rejected" ->
                /\ token_result' = Err("Auth")
                /\ UNCHANGED <<device, tpc>>
         [] outcome = "granted" ->
                /\ device' = Some(DeviceCode(interval, now + expires_in))
                /\ tpc' = "loop"
                /\ UNCHANGED token_result
    /\ UNCHANGED <<tokens, tokens_file, now, polls>>
    /\ UNCHANGED OtherThanDevice

\* Top of the poll loop: past the deadline the flow ends with "Device code
\* expired"; otherwise it sleeps poll_interval.
DeviceLoopTop ==
    /\ tpc = "loop"
    /\ IF now > device[1].deadline
       THEN /\ token_result' = Err("Auth")
            /\ tpc' = "idle"
            /\ UNCHANGED device
       ELSE /\ device' = Some([device[1] EXCEPT !.wake = now + device[1].interval])
            /\ tpc' = "sleep"
            /\ UNCHANGED token_result
    /\ UNCHANGED <<tokens, tokens_file, now, polls>>
    /\ UNCHANGED OtherThanDevice

\* Time passes while the flow sleeps; a sleep ends at its time or up to a
\* second late.
DeviceSleep ==
    /\ tpc \in {"sleep", "slow"}
    /\ now <= device[1].wake
    /\ now' = now + 1
    /\ UNCHANGED <<tokens, tokens_file, tpc, token_result, device, polls>>
    /\ UNCHANGED OtherThanDevice

\* The sleep is over and the token request is sent. A request that fails or
\* an answer that cannot be read ends the flow (Http); a token response sets
\* the tokens, saves them and ends the flow, with the error of a failed
\* write (Io); "authorization_pending" goes back to the top of the loop;
\* "slow_down" sleeps SLOW_DOWN_DELAY first; any other error code ends the
\* flow (Auth).
DevicePoll(answer, expires_in, written, cut) ==
    /\ tpc = "sleep"
    /\ now >= device[1].wake
    /\ polls' = Append(polls, [at |-> now, answer |-> answer])
    /\ CASE answer = "unsent" ->
                /\ token_result' = Err("Http")
                /\ tpc' = "idle"
                /\ UNCHANGED <<tokens, tokens_file, device>>
         [] answer = "token" ->
                /\ tokens' = Some(StoredTokens(1, 1, now + expires_in))
                /\ IF written
                   THEN /\ tokens_file' = tokens'
                        /\ token_result' = Ok(1)
                   ELSE /\ tokens_file' = IF cut THEN None ELSE tokens_file
                        /\ token_result' = Err("Io")
                /\ tpc' = "idle"
                /\ UNCHANGED device
         [] answer = "authorization_pending" ->
                /\ tpc' = "loop"
                /\ UNCHANGED <<tokens, tokens_file, token_result, device>>
         [] answer = "slow_down" ->
                /\ tpc' = "slow"
                /\ device' = Some([device[1] EXCEPT !.wake = now + SLOW_DOWN_DELAY])
                /\ UNCHANGED <<tokens, tokens_file, token_result>>
         [] answer = "access_denied" ->
                /\ token_result' = Err("Auth")
                /\ tpc' = "idle"
                /\ UNCHANGED <<tokens, tokens_file, device>>
    /\ UNCHANGED now
    /\ UNCHANGED OtherThanDevice

\* The sleep after "slow_down" is over: `continue`.
DeviceSlowDownOver ==
    /\ tpc = "slow"
    /\ now >= device[1].wake
    /\ tpc' = "loop"
    /\ UNCHANGED <<tokens, tokens_file, now, token_result, device, polls>>
    /\ UNCHANGED OtherThanDevice

InitDevice ==
    /\ tokens = None
    /\ tokens_file = None
    /\ now = 0
    /\ tpc = "idle"
    /\ token_result = None
    /\ contacted = 0
    /\ device = None
    /\ polls = << >>
    /\ SchedParked
    /\ QueueParked
    /\ PassParked
    /\ PageParked
    /\ WorkerParked
    /\ UploadParked
    /\ SaveParked
    /\ OutcomeParked
    /\ LockParked

NextDevice ==
    \/ \E outcome \in {"unsent", "rejected", "granted"}, interval \in DeviceIntervals,
          expires_in \in DeviceExpiries :
           DeviceCodeRequest(outcome, interval, expires_in)
    \/ DeviceLoopTop
    \/ DeviceSleep
    \/ \E answer \in PollAnswers, expires_in \in ExpiresIn, written \in BOOLEAN,
          cut \in BOOLEAN :
           DevicePoll(answer, expires_in, written, cut)
    \/ DeviceSlowDownOver

SpecDevice == InitDevice /\ [][NextDevice]_vars

\* The runtime polls the flow, timers fire and requests return.
FairSpecDevice == SpecDevice /\ WF_vars(NextDevice)

\* ------------------------------------------------------------------------
\* Scheduling and registry properties
\* ------------------------------------------------------------------------

\* C1: for every channel at most one cleanup_channel execution exists at
\* any time, over every interleaving of ticks, task steps and commands.
C1_AtMostOneTaskPerChannel ==
    \A c \in ChannelIds : Cardinality(Active(c)) <= 1

\* A tick is about to visit a channel whose task is still running after the
\* channel was disabled (cancel delivered) and enabled again.
C1_Witness ==
    \E c \in ChannelIds :
        /\ c \in pending
        /\ c \in channels
        /\ is_running(c)
        /\ tasks[c][registry[c]].cancel
        /\ tasks[c][registry[c]].pc = "fetch"

TaskStarts(c) == \E s \in Slots : tasks[c][s].pc = "idle" /\ tasks'[c][s].pc # "idle"

\* C2: a tick that visits a registered channel spawns nothing for it and
\* leaves the registry as it is; a task starts only in a visit that finds
\* its channel unregistered.
C2_RegisteredChannelSkipped ==
    [][\A c \in ChannelIds :
          /\ (c \in pending /\ c \notin pending' /\ is_running(c)) =>
                 (registry' = registry /\ tasks' = tasks)
          /\ TaskStarts(c) =>
                 (c \in pending /\ c \notin pending' /\ ~is_running(c))]_vars

\* The scheduler is about to visit a channel whose task is in its delete loop.
C2_Witness ==
    \E c \in ChannelIds :
        /\ c \in pending
        /\ is_running(c)
        /\ tasks[c][registry[c]].pc = "delete"

\* C3: a channel is in the registry exactly when a cleanup task is
\* executing for it.
C3_RegisteredIffExecuting ==
    \A c \in ChannelIds : is_running(c) <=> Active(c) # {}

\* One channel is registered with its task about to return a persistence
\* error, the other is unregistered and has no task.
C3_Witness ==
    \E c, d \in ChannelIds :
        /\ c # d
        /\ is_running(c)
        /\ tasks[c][registry[c]].pc = "finish"
        /\ tasks[c][registry[c]].how = "persist_err"
        /\ ~is_running(d)
        /\ Active(d) = {}

\* C4: every registered channel is eventually deregistered, however
\* run_cleanup ends.
C4_EntryEventuallyRemoved ==
    \A c \in ChannelIds : is_running(c) ~> ~is_running(c)

\* run_cleanup has returned a fetch error to cleanup_channel and the
\* channel is still registered.
C4_Witness ==
    \E c \in ChannelIds :
        /\ is_running(c)
        /\ tasks[c][registry[c]].pc = "finish"
        /\ tasks[c][registry[c]].how = "fetch_err"

\* ------------------------------------------------------------------------
\* Backup queue properties
\* ------------------------------------------------------------------------

TableOf(k) == CHOOSE t \in disk.tables : t.key = k

TableType(k) == TableOf(k).status[1][2]

\* C5: right after BackupQueue::load no entry is InProgress: an entry
\* persisted as InProgress is Pending, an entry persisted as Pending or
\* Failed has the persisted status, and every retry_count is the persisted one.
C5_LoadResetsInProgress ==
    lastOp.op = "load" =>
        /\ DOMAIN entries = {t.key : t \in disk.tables}
        /\ \A k \in DOMAIN entries :
              /\ entries[k].status.type # "InProgress"
              /\ entries[k].retry_count = TableOf(k).retry_count
              /\ TableType(k) = "InProgress" => entries[k].status = Pending
              /\ TableType(k) = "Pending" => entries[k].status = Pending
              /\ TableType(k) = "Failed" =>
                     entries[k].status = Failed(TableOf(k).status[2][2])

\* A queue was loaded from a file holding an InProgress entry and a Failed
\* entry with a retry count.
C5_Witness ==
    /\ lastOp.op = "load"
    /\ \E k, j \in DOMAIN entries :
          /\ TableType(k) = "InProgress"
          /\ TableType(j) = "Failed"
          /\ entries[j].retry_count > 0

\* C6 as stated: when every mutating call returned Ok, a reload gives the
\* in-memory queue (same keys, statuses and retry counts).
C6_ReloadEqualsMemory ==
    allOk => Load(disk) = entries

\* C6 amended: when every mutating call returned Ok, a reload gives the same
\* keys and retry counts and the same statuses, except that an entry that is
\* InProgress in memory is Pending after the reload.
C6_ReloadEqualsMemoryUpToInProgress ==
    allOk =>
        /\ DOMAIN Load(disk) = DOMAIN entries
        /\ \A k \in DOMAIN entries :
              /\ Load(disk)[k].local_path = entries[k].local_path
              /\ Load(disk)[k].retry_count = entries[k].retry_count
              /\ Load(disk)[k].status =
                     IF entries[k].status = InProgress THEN Pending ELSE entries[k].status

\* Every call returned Ok; the queue holds an InProgress entry and a Failed
\* entry that was reset and failed again.
C6_Witness ==
    /\ allOk
    /\ lastOp.op = "mark_failed"
    /\ \E k, j \in DOMAIN entries :
          /\ entries[k].status = InProgress
          /\ entries[j].status.type = "Failed"
          /\ entries[j].retry_count = 2

IsCall(op, k) == lastOp' = [op |-> op, key |-> k]

\* C7: mark_failed adds exactly 1 to retry_count; mark_in_progress,
\* reset_to_pending, calls on other keys and a load after successful saves
\* leave it unchanged; only an add for the key replaces it, with 0.
C7_RetryCountMonotone ==
    [][\A k \in DOMAIN entries \cap DOMAIN entries' :
          /\ IsCall("mark_failed", k) =>
                 entries'[k].retry_count = entries[k].retry_count + 1
          /\ IsCall("add", k) => entries'[k].retry_count = 0
          /\ (~IsCall("mark_failed", k) /\ ~IsCall("add", k)
                /\ (lastOp'.op = "load" => allOk)) =>
                 entries'[k].retry_count = entries[k].retry_count]_vars

\* An entry that failed twice was reset to Pending and kept its count.
C7_Witness ==
    /\ lastOp.op = "reset_to_pending"
    /\ lastOp.key \in DOMAIN entries
    /\ entries[lastOp.key].status = Pending
    /\ entries[lastOp.key].retry_count = 2

Elems(seq) == {seq[i] : i \in DOMAIN seq}

\* C8: get_pending() returns exactly the entries whose status is Pending and
\* get_failed(n) exactly the Failed entries with retry_count < n, each once.
C8_GettersExact ==
    /\ Len(get_pending(entries)) = Cardinality({k \in DOMAIN entries : entries[k].status = Pending})
    /\ \A k \in DOMAIN entries :
          entries[k] \in Elems(get_pending(entries)) <=> entries[k].status = Pending
    /\ \A n \in 0..(MaxRetryCount + 1) :
          /\ Len(get_failed(entries, n)) =
                 Cardinality({k \in DOMAIN entries :
                                 \E e \in Errors : entries[k].status = Failed(e)
                                                   /\ entries[k].retry_count < n})
          /\ \A k \in DOMAIN entries :
                 entries[k] \in Elems(get_failed(entries, n)) <=>
                     (\E e \in Errors : entries[k].status = Failed(e)
                                        /\ entries[k].retry_count < n)

\* get_failed(1) has to leave out a Failed entry whose retry_count is 1 while
\* the other entry is Pending.
C8_Witness ==
    \E k, j \in DOMAIN entries :
        /\ entries[k].status.type = "Failed"
        /\ entries[k].retry_count = 1
        /\ entries[j].status = Pending
        /\ Len(get_failed(entries, 1)) = 0
        /\ Len(get_failed(entries, 2)) = 1
        /\ Len(get_pending(entries)) = 1

\* ------------------------------------------------------------------------
\* Cleanup pass properties
\* ------------------------------------------------------------------------

Range(seq) == {seq[i] : i \in DOMAIN seq}

HasMedia(m) == \E i \in DOMAIN m.attachments : m.attachments[i] = "media"

Classified == ppc # "start" /\ expired_messages # << >>

BulkDeleted == UNION {Range(call) : call \in Range(bulkCalls)}

\* C9: once a pass has classified, the delete jobs are exactly the expired
\* messages without a media attachment and the backup jobs exactly those
\* with one, and no bulk or single delete call of the pass names a message
\* that has a media attachment.
C9_ClassificationAndNoDeleteOfMedia ==
    /\ Classified =>
          /\ Range(IdsOf(delete_jobs)) =
                 {m.id : m \in {x \in Range(expired_messages) : ~HasMedia(x)}}
          /\ Range(IdsOf(backup_jobs)) =
                 {m.id : m \in {x \in Range(expired_messages) : HasMedia(x)}}
          /\ Len(delete_jobs) + Len(backup_jobs) = Len(expired_messages)
    /\ \A m \in Range(expired_messages) :
          HasMedia(m) => m.id \notin BulkDeleted \cup Range(singleCalls)

\* A finished pass that bulk deleted a message with a non-media attachment
\* and downloaded the media of another message.
C9_Witness ==
    /\ ppc = "done"
    /\ \E m \in Range(expired_messages) :
          /\ m.attachments = <<"other">>
          /\ m.id \in BulkDeleted
    /\ \E m \in Range(expired_messages) :
          /\ m.attachments = <<"other", "media">>
          /\ m.id \in Range(downloads)

YoungerOrEqual == {j.message_id : j \in {x \in Range(delete_jobs) : x.message_id.age <= BULK_DELETE_THRESHOLD}}

Older == {j.message_id : j \in {x \in Range(delete_jobs) : x.message_id.age > BULK_DELETE_THRESHOLD}}

\* C10: in a pass that ran uncancelled to its end, the bulk delete calls
\* carry exactly the delete jobs not older than the 14-day ceiling and the
\* single delete calls exactly the older ones, each once; when fewer than 2
\* jobs are not older, every job is deleted singly and none in bulk.
C10_BulkIndividualPartition ==
    (ppc = "done" /\ ~cancelled) =>
        IF Cardinality(YoungerOrEqual) < BULK_DELETE_MIN
        THEN /\ bulkCalls = << >>
             /\ Range(singleCalls) = Range(IdsOf(delete_jobs))
             /\ Len(singleCalls) = Len(delete_jobs)
        ELSE /\ BulkDeleted = YoungerOrEqual
             /\ Range(singleCalls) = Older
             /\ Len(singleCalls) = Cardinality(Older)

\* ------------------------------------------------------------------------
\* Pagination properties
\* ------------------------------------------------------------------------

\* A round of the running pass fetches a page successfully.
Fetches == ppc = "page" /\ round' = round + 1 /\ ppc' \in {"page", "persist"}

\* The page such a round gets is smaller than the requested size.
ShortPage == Len(Messages(cursor)) < MAX_MESSAGES_PER_FETCH

\* The pass saves its pagination state.
Persists == ppc = "persist" /\ ppc' # "persist"

ClearedAfterShortPage ==
    /\ (Fetches /\ ShortPage) => (ppc' = "persist" /\ reached_end')
    /\ (Persists /\ reached_end) => get_pagination_cursor' = None

OnPlatform == Range(platform)

\* The channel of the scenario: two messages that are 2 days old, one without
\* an attachment and one with an image, both deletable.
TextAndImage ==
    /\ history.total = 2
    /\ history.fresh = 0
    /\ history.young = 2
    /\ Cardinality(history.media) = 1
    /\ history.undeletable = {}

\* The first pass of the channel ran to its end without being cancelled.
FirstPassCompleted ==
    /\ passes = 1
    /\ ppc = "done"
    /\ ~cancelled
    /\ Len(downloads) = 1

\* C12: after one completed pass over the channel with 1-day retention, one
\* 2-day-old text message and one 2-day-old image message, the text message
\* is gone from the platform, the image message is still there, and the
\* backup queue holds exactly one entry, whose status is Pending.
C12_TextDeletedImageKeptOneEntry ==
    (TextAndImage /\ FirstPassCompleted) =>
        /\ \A n \in 1..2 : n \in OnPlatform <=> n \in history.media
        /\ Cardinality(DOMAIN entries) = 1
        /\ \A k \in DOMAIN entries : entries[k].status = Pending

\* ------------------------------------------------------------------------
\* Backup worker properties
\* ------------------------------------------------------------------------

\* The step is not a restart that loads a file some save failed to write.
NoStaleReload == lastOp'.op = "load" => allOk

\* The step is the return of a failed upload of p.
UploadFails(p) ==
    /\ wpc = "upload"
    /\ current = p
    /\ lastOp' = [op |-> "mark_failed", key |-> p]

\* The step starts an upload of p.
UploadStarts(p) == wpc # "upload" /\ wpc' = "upload" /\ current' = p

Retryable(b) == b.status.type = "Failed" /\ b.retry_count < max_retries

\* C13: an entry with max_retries - 1 failures whose upload fails has
\* retry_count = max_retries afterwards and is not returned by
\* get_failed(max_retries); an entry whose retry_count has reached
\* max_retries stays in the queue as it is: the worker does not upload it,
\* remove it or change it.
C13_ExhaustedEntryIsLeftAlone ==
    [][\A p \in DOMAIN entries :
          /\ (UploadFails(p) /\ entries[p].retry_count = max_retries - 1) =>
                 /\ entries'[p].retry_count = max_retries
                 /\ entries'[p].status.type = "Failed"
                 /\ p \notin PathsOf(get_failed(entries', max_retries))
          /\ (entries[p].retry_count >= max_retries /\ NoStaleReload) =>
                 /\ p \in DOMAIN entries'
                 /\ entries'[p] = entries[p]
                 /\ ~UploadStarts(p)]_vars

\* The upload of an entry that had failed max_retries - 1 times has just
\* failed again.
C13_Witness ==
    /\ wpc = "loop"
    /\ \E p \in DOMAIN entries :
          /\ lastOp = [op |-> "mark_failed", key |-> p]
          /\ entries[p].status = Failed("upload failed")
          /\ entries[p].retry_count = max_retries
          /\ p \in files

\* C14: an entry whose file is found missing is marked Failed with "file
\* missing", and an entry that is Failed with "file missing" keeps that
\* status: it is not reset to Pending and not uploaded.
C14_FileMissingIsPermanent ==
    [][\A p \in DOMAIN entries :
          /\ (wpc = "loop" /\ wpc' # "tick" /\ snapshot # << >>
                /\ snapshot' = Tail(snapshot) /\ Head(snapshot) = p /\ p \notin files) =>
                 entries'[p].status = Failed("file missing")
          /\ (entries[p].status = Failed("file missing") /\ NoStaleReload) =>
                 /\ p \in DOMAIN entries'
                 /\ entries'[p].status = Failed("file missing")
                 /\ ~UploadStarts(p)]_vars

\* C15: a failed upload marks the entry Failed with the error text and adds
\* 1 to retry_count, and when a tick of the worker is over no entry is
\* Failed with retry_count < max_retries.
C15_NoRetryableFailureAfterTick ==
    /\ []((wpc = "tick" /\ ticked) => \A p \in DOMAIN entries : ~Retryable(entries[p]))
    /\ [][\A p \in DOMAIN entries :
             UploadFails(p) =>
                 /\ entries'[p].status = Failed("upload failed")
                 /\ entries'[p].retry_count = entries[p].retry_count + 1]_vars

\* C16: when an upload returns Ok the entry leaves the queue while the file
\* is still there, the file is deleted afterwards, and whether or not that
\* deletion works the entry is absent after it.
C16_RemovalBeforeUnlinkNoRollback ==
    [][/\ (wpc = "upload" /\ wpc' = "unlink") =>
              /\ current \notin DOMAIN entries'
              /\ files' = files
       /\ (wpc = "unlink" /\ wpc' = "loop") =>
              /\ current \notin DOMAIN entries
              /\ current \notin DOMAIN entries'
              /\ files' \in {files, files \ {current}}]_vars

\* A file was uploaded and its entry removed, the deletion of the file
\* failed, and the entry is still absent.
C16_Witness ==
    /\ wpc = "loop"
    /\ \E p \in uploaded :
          /\ lastOp = [op |-> "remove", key |-> p]
          /\ p \in files
          /\ p \notin DOMAIN entries

\* C17: a local file disappears only in the worker's delete step for that
\* file, which follows an upload of it that returned Ok.
C17_FileDeletedOnlyAfterUpload ==
    [][\A p \in Paths :
          (p \in files /\ p \notin files') =>
              /\ wpc = "unlink"
              /\ current = p
              /\ p \in uploaded
              /\ files' = files \ {p}]_vars

\* One file was deleted after its upload; the file of an entry whose upload
\* failed is still there.
C17_Witness ==
    /\ \E p \in uploaded : p \notin files
    /\ \E q \in files \ uploaded :
          /\ q \in DOMAIN entries
          /\ entries[q].status = Failed("upload failed")

\* ------------------------------------------------------------------------
\* Upload properties
\* ------------------------------------------------------------------------

\* ceil(file_size / chunk_size)
CeilDiv(a, b) == IF a % b = 0 THEN a \div b ELSE a \div b + 1

RangeStart(r) == r.range[2]

RangeEnd(r) == r.range[4]

RangeTotal(r) == r.range[6]

\* C18: an upload_file that returned Ok has sent exactly one upload request
\* for a file below the simple-upload limit, and for a file at or above it
\* one session creation followed by exactly ceil(file_size / CHUNK_SIZE)
\* chunk uploads whose Content-Range intervals start at byte 0, follow one
\* another without gap or overlap, and end at byte file_size - 1.
C18_RequestsOfUpload ==
    upc = "ok" =>
        IF file_size < SIMPLE_UPLOAD_LIMIT
        THEN /\ Len(requests) = 1
             /\ requests[1].kind = "content"
             /\ requests[1].bytes = file_size
        ELSE LET N == CeilDiv(file_size, CHUNK_SIZE)
             IN  /\ Len(requests) = 1 + N
                 /\ requests[1].kind = "createUploadSession"
                 /\ \A i \in 2..(1 + N) :
                       /\ requests[i].kind = "chunk"
                       /\ RangeTotal(requests[i]) = file_size
                       /\ RangeStart(requests[i]) =
                              IF i = 2 THEN 0 ELSE RangeEnd(requests[i - 1]) + 1
                       /\ RangeEnd(requests[i]) >= RangeStart(requests[i])
                 /\ RangeEnd(requests[1 + N]) = file_size - 1

\* A file one byte longer than two chunks went up in a session with three
\* chunks, the first of them answered with 202.
C18_Witness ==
    /\ upc = "ok"
    /\ file_size = 2 * CHUNK_SIZE + 1
    /\ Len(requests) = 4
    /\ requests[2].status = 202
    /\ requests[4].bytes = 1

\* ------------------------------------------------------------------------
\* Cancellation properties
\* ------------------------------------------------------------------------

\* The disable command of channel c makes its call of cancel in this step.
CancelCalled(c) == c \in disabling /\ c \notin disabling'

\* A cleanup task of channel c is alive and its sender is in the registry.
TaskRegistered(c) == c \in DOMAIN registry /\ tasks[c][registry[c]].pc # "idle"

\* C19: cancel(channel) returns true exactly when a cleanup task is
\* registered for the channel at the time of the call, and then the signal
\* of that task, and nothing else, is set; otherwise it returns false and
\* neither a task nor the registry changes.
C19_CancelFindsRegisteredTask ==
    [][\A c \in ChannelIds :
          CancelCalled(c) =>
              /\ was_running(c) <=> TaskRegistered(c)
              /\ was_running(c) =>
                     /\ tasks'[c][registry[c]].cancel
                     /\ \A x \in ChannelIds, s \in Slots :
                            <<x, s>> # <<c, registry[c]>> => tasks'[x][s] = tasks[x][s]
                     /\ tasks'[c][registry[c]] =
                            [tasks[c][registry[c]] EXCEPT !.cancel = TRUE]
              /\ ~was_running(c) => tasks' = tasks
              /\ registry' = registry]_vars

\* The disable command of c1 has returned after signalling the task of c1,
\* which has not yet reached a checkpoint, while a task of c2 runs unsignalled.
C19_Witness ==
    /\ "c1" \notin disabling
    /\ "c1" \notin channels
    /\ TaskRegistered("c1")
    /\ tasks["c1"][registry["c1"]].cancel
    /\ tasks["c1"][registry["c1"]].pc = "delete"
    /\ TaskRegistered("c2")
    /\ ~tasks["c2"][registry["c2"]].cancel

\* A fetch, a bulk delete, an individual delete or a backup download starts
\* in this step.
OperationStarts ==
    /\ ppc # "done"
    /\ \/ round' > round
       \/ Len(bulkCalls') > Len(bulkCalls)
       \/ Len(singleCalls') > Len(singleCalls)
       \/ Len(downloads') > Len(downloads)
       \/ platform' # platform

\* The task stands at a checkpoint: at the top of a pagination round, of a
\* round of the bulk or of the item loop, or of a round of the backup loop.
AtCheckpoint ==
    \/ ppc = "page" /\ round < MAX_PAGINATION_ROUNDS
    \/ ppc = "bulk" /\ idx <= NumChunks(bulk_jobs)
    \/ ppc = "single" /\ individual_jobs # << >> /\ idx <= Len(delete_jobs)
    \/ ppc = "backup" /\ idx <= Len(backup_jobs)

\* The running pass, and not a command, takes this step.
TaskActs == <<ppc, idx, round>>' # <<ppc, idx, round>>

\* C20: a fetch, a bulk-delete batch, an individual delete and a backup
\* download start only at a checkpoint at which the cancellation flag is
\* not set; once the flag is set the running pass starts none of them, and
\* its step at a checkpoint leaves the loop the checkpoint belongs to.
C20_NoOperationAfterCancellation ==
    [][/\ OperationStarts => AtCheckpoint /\ ~cancelled
       /\ (cancelled /\ AtCheckpoint /\ TaskActs) => ppc' \in {"done", "check"}
       /\ (cancelled /\ ppc = "check" /\ TaskActs) => ppc' = "done"]_vars

\* A pass with a media message to back up was cancelled after the first of
\* its individual deletes and has returned: the later deletes and the
\* download were not started.
C20_Witness ==
    /\ cancelled
    /\ ppc = "done"
    /\ individual_jobs # << >>
    /\ Len(singleCalls) = 1
    /\ Len(delete_jobs) > 1
    /\ backup_jobs # << >>
    /\ downloads = << >>

\* ------------------------------------------------------------------------
\* Properties of the pagination phase
\* ------------------------------------------------------------------------

\* The cancellation flag is set and a page fetch of the pass has completed:
\* the task is about to enter the next round or to save its pagination state.
CancelledAfterFetch == cancelled /\ round > 0 /\ ppc \in {"page", "persist"}

\* C21: when the cancellation flag is set at the completion of a page fetch,
\* the steps the task takes from there write neither the stored pagination
\* cursor of the channel nor delete a message.
C21_CancelledPassLeavesCursor ==
    [][(CancelledAfterFetch /\ TaskActs) =>
           /\ pagination_cursor' = pagination_cursor
           /\ platform' = platform]_vars

\* ------------------------------------------------------------------------
\* Properties of the queue file
\* ------------------------------------------------------------------------

\* C22: whatever step of save the process stops at, the canonical queue file
\* is the complete file it was before the save or the complete serialization
\* of the new queue: a step changes the canonical file only by putting the
\* whole new queue in its place, and a process that stops and restarts loads
\* the queue of one of the two.
C22_CanonicalFileOldOrNew ==
    [][/\ disk' = disk \/ disk' = Serialize(entries)
       /\ lastOp'.op = "load" => entries' = Load(disk) /\ disk' = disk]_vars

\* The process stopped between the temp write and the rename of a save that
\* added b.png to a queue holding a.png: the canonical file is the old one,
\* the restarted process holds the old queue, the temp file is left behind.
C22_Witness ==
    /\ lastOp.op = "load"
    /\ spc = "idle"
    /\ disk.exists
    /\ DOMAIN entries = {"a.png"}
    /\ disk = Serialize(entries)
    /\ temp.exists
    /\ {t.key : t \in temp.tables} = {"a.png", "b.png"}

\* Every entry is stored under the key made from its own local_path.
KeyIsLocalPath == \A k \in DOMAIN entries : entries[k].local_path = k

\* No two entries are about the same local file.
OneEntryPerFile ==
    \A k, j \in DOMAIN entries : entries[k].local_path = entries[j].local_path => k = j

\* C23: after any sequence of add, remove, mark and load calls every entry
\* is stored under the key equal to its local_path and no two entries share
\* a local_path; an add for a local_path that is already present leaves the
\* set of keys as it is and puts the new entry in the place of the old one.
C23_OneEntryPerLocalPath ==
    /\ [](KeyIsLocalPath /\ OneEntryPerFile)
    /\ [][\A path \in DOMAIN entries :
             IsCall("add", path) =>
                 /\ DOMAIN entries' = DOMAIN entries
                 /\ entries'[path] = NewBackup(path)
                 /\ \A k \in DOMAIN entries \ {path} : entries'[k] = entries[k]]_vars

\* a.png, which had failed twice, was added again while b.png is queued: the
\* queue holds two entries and the one of a.png is the new one; the save of
\* the add failed, so the file still shows the entry that was replaced.
C23_Witness ==
    /\ lastOp = [op |-> "add", key |-> "a.png"]
    /\ DOMAIN entries = {"a.png", "b.png"}
    /\ entries["a.png"] = NewBackup("a.png")
    /\ \E t \in disk.tables : t.key = "a.png" /\ t.retry_count = 2

\* ------------------------------------------------------------------------
\* Token properties
\* ------------------------------------------------------------------------

\* get_valid_token looks at the stored expiry in this step.
TokenDecides == tpc = "called" /\ (tpc' = "refresh" \/ token_result' # None)

\* get_valid_token returns in this step.
TokenReturns == tpc # "idle" /\ tpc' = "idle" /\ token_result' # None

\* C24: get_valid_token returns the stored access token without a request
\* when its expiry is more than the buffer away; otherwise it refreshes
\* first and a token it returns is the new one; a call that returns an error
\* leaves the stored tokens as they were.
C24_TokenOrErrorWithoutChange ==
    [][/\ (TokenDecides /\ tokens # None) =>
              IF tokens[1].expires_at - now > buffer
              THEN /\ token_result' = Ok(tokens[1].access_token)
                   /\ contacted' = 0
                   /\ tokens' = tokens
              ELSE tpc' = "refresh" /\ token_result' = None
       /\ (TokenReturns /\ tpc = "refresh" /\ token_result'.ok) =>
              /\ contacted' = 1
              /\ tokens' # tokens
              /\ token_result'.token = tokens'[1].access_token
       /\ (TokenReturns /\ ~token_result'.ok) => tokens' = tokens]_vars

\* C25: one invocation of run_cleanup performs at most MAX_PAGINATION_ROUNDS
\* page fetches, whatever the backlog and however few expired messages the
\* pages hold: `round` counts the fetches issued by the current pass, it
\* never exceeds the ceiling, and a step that fetches starts below it.
FetchIssued == round' > round

C25_AtMostTenFetches ==
    /\ [](round <= MAX_PAGINATION_ROUNDS)
    /\ [][FetchIssued => round < MAX_PAGINATION_ROUNDS /\ round' = round + 1]_vars

\* The ceiling ends the pagination of a backlog of full pages without one
\* expired message, with history left to fetch.
C25_Witness ==
    /\ round = MAX_PAGINATION_ROUNDS
    /\ ppc = "persist"
    /\ ~reached_end
    /\ expired_messages = << >>
    /\ history.total > MAX_PAGINATION_ROUNDS * MAX_MESSAGES_PER_FETCH

\* The pagination of the pass has reached the target and the truncation has
\* cut expired messages off; the persist step is next.
TruncationCutOff ==
    /\ ppc = "persist"
    /\ enabled
    /\ dropped # << >>
    /\ Len(expired_messages) = TARGET_EXPIRED_MESSAGES

\* C26: when the accumulated expired messages reach the target, pagination
\* stops with exactly TARGET_EXPIRED_MESSAGES messages retained, and the
\* cursor persisted for the next pass is the id of the oldest retained
\* message, from which the next pass fetches the messages cut off.
C26_TruncationPersistsOldestRetained ==
    /\ [](dropped # << >> /\ ppc # "done"
            => Len(expired_messages) = TARGET_EXPIRED_MESSAGES)
    /\ [][TruncationCutOff /\ TaskActs
            => pagination_cursor' = Some(expired_messages[TARGET_EXPIRED_MESSAGES].id)]_vars

\* The task of an uncancelled pass takes the step after its pagination loop.
PersistStep == ppc = "persist" /\ ~cancelled /\ TaskActs

JobPhase == ppc \in {"start", "bulk", "single", "check", "backup"}

NoJobRun == bulkCalls = << >> /\ singleCalls = << >> /\ downloads = << >>

PassCompleted ==
    /\ ppc = "done"
    /\ result # "err"
    /\ ~cancelled
    /\ expired_messages # << >>

AllChunks(jobs) == [i \in 1..NumChunks(jobs) |-> IdsOf(Chunk(jobs, i))]

Refused(id) == id.n \in history.undeletable

\* C28: a failed bulk-delete batch, individual delete or download does not
\* end the loop it happens in: a pass that is not cancelled attempts every
\* batch, every item of the individual loop and every backup job, and
\* run_cleanup returns success whatever has failed in them.
C28_FailuresDoNotAbort ==
    /\ [](PassCompleted
            => /\ result = "ok"
               /\ bulkCalls = AllChunks(bulk_jobs)
               /\ singleCalls = IF individual_jobs = << >> THEN << >>
                                 ELSE IdsOf(delete_jobs)
               /\ downloads = IdsOf(backup_jobs))
    /\ [][JobPhase /\ ppc' = "done" => result' = "ok"]_vars

\* A completed pass in which a delete was refused before the last item of
\* the loop and a download failed.
C28_Witness ==
    /\ PassCompleted
    /\ \E i \in DOMAIN singleCalls : Refused(singleCalls[i]) /\ i < Len(singleCalls)
    /\ download_errors # {}
    /\ result = "ok"

\* ------------------------------------------------------------------------
\* Properties of the error paths of run_cleanup
\* ------------------------------------------------------------------------

\* run_cleanup of the task in slot s returns an error to cleanup_channel.
Aborts(c, s) ==
    /\ tasks[c][s].pc # "finish"
    /\ tasks'[c][s].pc = "finish"
    /\ IsErr(tasks'[c][s].how)

InJobs(pc) == pc \in {"delete", "check", "backup"}

\* cleanup_channel of the task in slot s goes on after an error was returned
\* to it.
EndsWithError(c, s) ==
    /\ tasks[c][s].pc = "finish"
    /\ IsErr(tasks[c][s].how)
    /\ tasks'[c][s].pc # "finish"

\* C29: run_cleanup returns an error only from a page fetch or from the
\* cursor write, where no delete or download of the pass has been issued
\* (the jobs are set up after the write, and from the jobs the pass never
\* goes back to a fetch or to the write); the error arrives in
\* cleanup_channel, whose next step removes the channel's registry entry.
C29_AbortBeforeJobsAndDeregister ==
    /\ [](\A c \in ChannelIds : \A s \in Slots :
            tasks[c][s].pc \in {"round", "fetch", "persist"}
                => tasks[c][s].del = 0 /\ tasks[c][s].bk = 0)
    /\ [][\A c \in ChannelIds : \A s \in Slots :
            /\ Aborts(c, s) => tasks[c][s].pc \in {"fetch", "persist"}
            /\ InJobs(tasks[c][s].pc)
                  => InJobs(tasks'[c][s].pc) \/ (tasks'[c][s].pc = "finish"
                                                  /\ ~IsErr(tasks'[c][s].how))
            /\ EndsWithError(c, s)
                  => ~is_running(c)' /\ tasks'[c][s] = IdleTask]_vars

\* The cursor write of a registered task has failed and the error is in
\* cleanup_channel, which has not deregistered yet.
C29_Witness ==
    \E c \in ChannelIds :
        /\ is_running(c)
        /\ tasks[c][registry[c]].pc = "finish"
        /\ tasks[c][registry[c]].how = "persist_err"

\* ------------------------------------------------------------------------
\* Properties of the queue lock
\* ------------------------------------------------------------------------

\* The worker awaits upload_file or remove_file.
AwaitingIO == wpc \in {"upload", "unlink"}

\* C30 as stated: the queue lock is held for one queue operation at a time,
\* and it is free whenever the worker awaits upload_file or remove_file.
C30_LockHeldForOneOperation ==
    /\ held_ops <= 1
    /\ AwaitingIO => lock = "free"

\* C30 amended: the queue lock is free whenever the worker awaits the tick,
\* upload_file or remove_file; every acquisition covers one queue operation,
\* except the one of reset_failed_for_retry, which is held, without an await,
\* over the reset_to_pending calls of all the paths it has collected.
C30_LockFreeAtEveryAwait ==
    /\ wpc \in {"tick", "upload", "unlink"} => lock = "free"
    /\ lock # "free" => wpc = "reset"
    /\ held_ops > 1 => lastOp.op = "reset_to_pending"
    /\ held_ops <= Cardinality(Paths)

\* After an upload of the run, reset_failed_for_retry holds the lock with
\* one path reset and another one to go.
C30_Witness ==
    /\ wpc = "reset"
    /\ lock = "worker"
    /\ held_ops = 1
    /\ snapshot # << >>
    /\ uploaded # {}

\* ------------------------------------------------------------------------
\* Properties of the device code flow
\* ------------------------------------------------------------------------

FlowEnded == tpc = "idle" /\ token_result # None

LastPoll == polls[Len(polls)]

PollGap(k) == polls[k + 1].at - polls[k].at

\* A token response ends the flow with the tokens set, successfully unless
\* the token file could not be written.
TokenResponseEndsFlow ==
    (polls # << >> /\ LastPoll.answer = "token")
        => /\ FlowEnded
           /\ tokens # None
           /\ token_result = Ok(1) \/ token_result = Err("Io")

\* An error other than the two expected ones is fatal.
OtherErrorIsFatal ==
    /\ (polls # << >> /\ LastPoll.answer = "access_denied")
          => FlowEnded /\ token_result = Err("Auth")
    /\ (polls # << >> /\ LastPoll.answer = "unsent")
          => FlowEnded /\ token_result = Err("Http")

\* After an expected error the flow ends only past the deadline, with the
\* error "Device code expired", and no sleep before a poll starts past it.
ExpiryEndsFlow ==
    /\ (FlowEnded /\ polls # << >>
           /\ LastPoll.answer \in {"authorization_pending", "slow_down"})
          => token_result = Err("Auth") /\ now > device[1].deadline
    /\ \A k \in DOMAIN polls :
          polls[k].at <= device[1].deadline + device[1].interval + 1

\* Polls are never closer than the interval of the device code response.
PendingKeepsInterval ==
    \A k \in 1..(Len(polls) - 1) : PollGap(k) >= device[1].interval

\* Every poll that follows a "slow_down" answer comes after more than the
\* interval of the device code response.
SlowDownLengthensInterval ==
    \A i \in DOMAIN polls : \A k \in i..(Len(polls) - 1) :
        polls[i].answer = "slow_down" => PollGap(k) > device[1].interval

\* C31: the poll loop of device_code_flow always terminates: with success on
\* a token response, with a fatal error on any error other than
\* "authorization_pending" and "slow_down", and with "Device code expired"
\* once the expiry has passed; "authorization_pending" keeps polling at the
\* same interval and "slow_down" increases the interval used for the polls
\* that follow.
C31_PollLoopTerminates ==
    /\ [](TokenResponseEndsFlow /\ OtherErrorIsFatal /\ ExpiryEndsFlow
            /\ PendingKeepsInterval /\ SlowDownLengthensInterval)
    /\ (tpc # "idle" ~> FlowEnded)

\* ------------------------------------------------------------------------
\* Properties of the chunk responses
\* ------------------------------------------------------------------------

Accepted(status) == is_success(status) \/ status = 202

ChunkAnswered == Len(requests') > Len(requests) /\ requests'[Len(requests')].kind = "chunk"

\* C32: in a resumable upload a chunk answered with a success status or
\* with 202 lets the upload go on; any other status ends the upload with an
\* error, no request is sent after it, and the worker marks the entry Failed
\* when the failed upload returns to it.
C32_ChunkStatusDecides ==
    /\ [][ChunkAnswered
            => upc' = IF Accepted(requests'[Len(requests')].status)
                      THEN "chunks" ELSE "failed"]_vars
    /\ [][upc = "failed" => requests' = requests /\ upc' = "failed"]_vars
    /\ [](upc = "ok" => \A i \in DOMAIN ChunkRequests : Accepted(ChunkRequests[i].status))
    /\ [][upc = "failed" /\ wpc = "upload" /\ wpc' # "upload"
            => /\ entries'[current].status.type = "Failed"
               /\ entries'[current].retry_count = entries[current].retry_count + 1
               /\ files' = files]_vars

\* A resumable upload whose first chunk was answered 202 and whose second
\* chunk was refused has returned, and the entry is Failed.
C32_Witness ==
    /\ Len(ChunkRequests) = 2
    /\ ChunkRequests[1].status = 202
    /\ ~Accepted(ChunkRequests[2].status)
    /\ upc = "failed"
    /\ wpc = "loop"
    /\ entries["a.png"].status.type = "Failed"

\* ------------------------------------------------------------------------
\* Properties of failed queue saves
\* ------------------------------------------------------------------------

\* The call of the step has changed the queue in memory as the call does.
MutationApplied ==
    LET k == lastOp'.key
        found == k \in DOMAIN entries
    IN  /\ lastOp'.op = "add" => k \in DOMAIN entries' /\ entries'[k] = NewBackup(k)
        /\ lastOp'.op = "remove" => k \notin DOMAIN entries'
        /\ (lastOp'.op = "mark_in_progress" /\ found)
              => entries'[k].status = InProgress
        /\ (lastOp'.op = "mark_failed" /\ found)
              => /\ entries'[k].status.type = "Failed"
                 /\ entries'[k].retry_count = entries[k].retry_count + 1
        /\ (lastOp'.op = "reset_to_pending" /\ found)
              => entries'[k].status = Pending

\* The call of the step is the first since the load whose save failed.
SaveFails == allOk /\ ~allOk'

\* C33: a mutating call changes the queue in memory whether or not its save
\* succeeds; after a failed save the file is the one from before the call,
\* and the queue in memory keeps the new state.
C33_FailedSaveKeepsMutation ==
    [][lastOp'.op # "load"
         => /\ MutationApplied
            /\ disk' = disk \/ disk' = Serialize(entries')
            /\ SaveFails => disk' = disk]_vars

\* The save of a mark_failed has failed: the entry is Failed in memory and
\* InProgress in the file.
C33_Witness ==
    /\ ~allOk
    /\ lastOp.op = "mark_failed"
    /\ lastOp.key \in DOMAIN entries
    /\ entries[lastOp.key].status.type = "Failed"
    /\ disk.exists
    /\ \E t \in disk.tables : t.key = lastOp.key /\ TableType(lastOp.key) = "InProgress"

\* ------------------------------------------------------------------------
\* Properties of the delete calls of one pass
\* ------------------------------------------------------------------------

\* No id is sent in two single delete calls, nor in two bulk delete calls.
NoCallRepeated ==
    /\ \A i, j \in DOMAIN singleCalls : singleCalls[i] = singleCalls[j] => i = j
    /\ \A i, j \in DOMAIN bulkCalls :
          i # j => Range(bulkCalls[i]) \cap Range(bulkCalls[j]) = {}

\* C34: within one pass no message id is sent for deletion twice; no id of a
\* bulk delete call is also the id of a single delete call.
C34_EachJobAttemptedOnce ==
    /\ NoCallRepeated
    /\ BulkDeleted \cap Range(singleCalls) = {}

\* ------------------------------------------------------------------------
\* Properties of a completed disable
\* ------------------------------------------------------------------------

\* The step registers a task for the channel or spawns one.
RegistersOrSpawns(c) ==
    \/ c \notin DOMAIN registry /\ c \in DOMAIN registry'
    \/ \E s \in Slots : tasks[c][s].pc = "idle" /\ tasks'[c][s].pc # "idle"

\* A channel counts as disabled only while it is out of the configuration.
DisabledIsRemoved == disabled \cap channels = {}

\* C35: after a disable has removed the channel and called cancel, and until
\* the channel is enabled again, no step registers or spawns a task for it.
C35_NoTaskAfterDisable ==
    [][\A c \in ChannelIds :
          (c \in disabled /\ c \in disabled') => ~RegistersOrSpawns(c)]_vars

\* ------------------------------------------------------------------------
\* Properties of a stricter retention policy
\* ------------------------------------------------------------------------

\* C36: after an enable with a stricter policy has cleared the stored cursor
\* of the channel, the cursor stays cleared until a pass that started after
\* the change writes it: a pass that was running at the change leaves it.
C36_ClearedCursorStaysCleared == cleared => pagination_cursor = None

\* ------------------------------------------------------------------------
\* Properties of a finished worker pass
\* ------------------------------------------------------------------------

\* The worker is between two passes: it waits for its next tick.
BetweenPasses == wpc = "tick"

\* The entries the pass has marked InProgress that still are InProgress.
LeftInProgress ==
    {p \in marked : p \in DOMAIN entries /\ entries[p].status = InProgress}

\* Every entry the pass has marked is the one being uploaded or is no
\* longer InProgress, as long as every save of a mark_in_progress succeeds.
MarkedAreSettled ==
    allOk => LeftInProgress \subseteq (IF wpc \in {"upload"} THEN {current} ELSE {})

\* C37: when a pass of the worker has finished, no entry the pass marked
\* InProgress is still InProgress in memory.
C37_NoInProgressAfterPass == BetweenPasses => LeftInProgress = {}

\* ------------------------------------------------------------------------
\* Properties of the retry limit
\* ------------------------------------------------------------------------

C39_BulkCallSize ==
    \A i \in DOMAIN bulkCalls :
        /\ Len(bulkCalls[i]) >= BULK_DELETE_MIN
        /\ Len(bulkCalls[i]) <= BULK_DELETE_MAX

\* A pass that collected the whole target of expired messages has sent them
\* in one bulk delete call of the largest size.
C39_Witness ==
    /\ bulkCalls # << >>
    /\ Len(bulkCalls[1]) = BULK_DELETE_MAX
    /\ Len(expired_messages) = TARGET_EXPIRED_MESSAGES

\* ------------------------------------------------------------------------
\* Progress of the backup worker
\* ------------------------------------------------------------------------

\* The entry of the path has been removed or has used up its retries.
Settled(p) ==
    \/ p \notin DOMAIN entries
    \/ /\ entries[p].status.type = "Failed"
       /\ entries[p].retry_count = max_retries

\* An entry that is Pending at a tick is settled in the end.
PendingSettles ==
    \A p \in Paths :
        (p \in DOMAIN entries /\ entries[p].status = Pending) ~> Settled(p)

\* C40: with the worker ticking, the saves succeeding and the files present,
\* every entry of the queue is in the end removed or left Failed with
\* retry_count = max_retries.
C40_EveryEntrySettles ==
    \A p \in Paths : (p \in DOMAIN entries) ~> Settled(p)

====
